---- MODULE Spec2Model ----
(***************************************************************************)
(* A model of the AwesomeGIC bank ledger (src/bank_system.py): the          *)
(* Transaction / InterestRule / BankAccount records and the BankSystem      *)
(* operations create_transaction, add_interest_rule, calculate_interest,    *)
(* print_account_transactions, print_monthly_statement and                  *)
(* print_interest_rules.                                                    *)
(*                                                                          *)
(* Representation.                                                          *)
(*   - A Python str that the code parses (date text, amount text, rate text,*)
(*     month selector) is a sequence of one-character strings, so that      *)
(*     parsing and formatting are computed character by character.          *)
(*   - A datetime.date is a record [year, month, day]; dates are compared   *)
(*     and subtracted through their proleptic Gregorian ordinal.            *)
(*   - A Decimal with exponent -2 (every stored amount and rate) is its     *)
(*     integer coefficient, i.e. the amount in cents / the rate in          *)
(*     hundredths of a percent.                                             *)
(*   - The Decimal values of the accrual loop, which carry up to 28         *)
(*     significant digits, are a sign and a magnitude written in limbs of   *)
(*     four decimal digits (see "Decimal arithmetic of the accrual loop").  *)
(*   - The text returned by the print_* operations is the sequence of its   *)
(*     rows, each row a record of the values that are formatted into it.    *)
(***************************************************************************)
EXTENDS Integers, Sequences, FiniteSets, TLC

VARIABLES
    accounts,              \* BankSystem.accounts: account id -> list of Transaction
    interest_rules,        \* BankSystem.interest_rules: list of InterestRule
    transaction_counters,  \* BankSystem.transaction_counters: date text -> count
    last,                  \* the last call made and what it returned
    callers                \* the callers of the BankSystem: whether they hold a common
                           \* lock, and each one's position and local variables

vars == <<accounts, interest_rules, transaction_counters, last, callers>>

(***************************************************************************)
(* Characters and small helpers                                             *)
(***************************************************************************)

\* value of a decimal digit character
DigitVal == [c \in {"0","1","2","3","4","5","6","7","8","9"} |->
               CASE c = "0" -> 0 [] c = "1" -> 1 [] c = "2" -> 2 [] c = "3" -> 3
                 [] c = "4" -> 4 [] c = "5" -> 5 [] c = "6" -> 6 [] c = "7" -> 7
                 [] c = "8" -> 8 [] c = "9" -> 9]

\* the digit character of a value 0..9
DigitChar == <<"0","1","2","3","4","5","6","7","8","9">>

IsDigit(c) == c \in DOMAIN DigitVal

\* code point of the characters that occur in stored transaction ids
CharCode(c) == CASE c = " " -> 32 [] c = "-" -> 45 [] IsDigit(c) -> 48 + DigitVal[c]
                 [] OTHER -> 97

\* s[i..j] as Python slices it (empty when out of range)
Slice(s, i, j) == IF i > j \/ i > Len(s) THEN <<>>
                  ELSE SubSeq(s, i, IF j > Len(s) THEN Len(s) ELSE j)

AllDigits(s) == \A i \in 1..Len(s) : IsDigit(s[i])

\* the natural number written by a string of decimal digits
RECURSIVE DigitsToNat(_)
DigitsToNat(s) == IF s = <<>> THEN 0
                  ELSE 10 * DigitsToNat(SubSeq(s, 1, Len(s) - 1)) + DigitVal[s[Len(s)]]

\* the decimal digits of a natural number, without leading zeros ("0" for 0)
RECURSIVE NatToDigits(_)
NatToDigits(n) == IF n < 10 THEN <<DigitChar[n + 1]>>
                  ELSE Append(NatToDigits(n \div 10), DigitChar[(n % 10) + 1])

\* format(n, "d"): the variant of Format02d that does not pad
FormatPlain(n) == NatToDigits(n)

\* format(n, "02d"): at least two digits, zero padded, wider when n > 99
Format02d(n) == IF n < 10 THEN <<"0">> \o NatToDigits(n) ELSE NatToDigits(n)

\* str.upper() on a transaction type token
Upper(t) == CASE t = "d" -> "D" [] t = "w" -> "W" [] t = "i" -> "I" [] t = "x" -> "X"
              [] OTHER -> t

\* Python's None, as a transaction id
None == <<"None">>

(***************************************************************************)
(* Calendar                                                                 *)
(***************************************************************************)

IsLeap(y) == (y % 4 = 0) /\ ((y % 100 # 0) \/ (y % 400 = 0))

\* calendar.monthrange(year, month)[1]
DaysInMonth(y, m) == IF m = 2 THEN (IF IsLeap(y) THEN 29 ELSE 28)
                     ELSE IF m \in {4, 6, 9, 11} THEN 30 ELSE 31

RECURSIVE DaysBeforeMonth(_, _)
DaysBeforeMonth(y, m) == IF m = 1 THEN 0
                         ELSE DaysBeforeMonth(y, m - 1) + DaysInMonth(y, m - 1)

\* date.toordinal(): 0001-01-01 is day 1
Ordinal(d) == LET y == d.year - 1
              IN  y * 365 + (y \div 4) - (y \div 100) + (y \div 400)
                  + DaysBeforeMonth(d.year, d.month) + d.day

Date(y, m, d) == [year |-> y, month |-> m, day |-> d]

RECURSIVE ZeroPad(_, _)
ZeroPad(s, w) == IF Len(s) >= w THEN s ELSE ZeroPad(<<"0">> \o s, w)

\* date.strftime("%Y%m%d"); the C library's %Y does not pad a year below 1000
Strftime(d) == NatToDigits(d.year) \o ZeroPad(NatToDigits(d.month), 2)
               \o ZeroPad(NatToDigits(d.day), 2)

(***************************************************************************)
(* Parsing                                                                  *)
(***************************************************************************)

\* The alternatives of strptime's directive %m, (1[0-2]|0[1-9]|[1-9]), that
\* match s at position p, in the order the regular expression tries them;
\* each is [val, len].
MonthAlts(s, p) ==
    LET c1 == IF p <= Len(s) THEN s[p] ELSE "" 
        c2 == IF p + 1 <= Len(s) THEN s[p + 1] ELSE ""
    IN  (IF c1 = "1" /\ c2 \in {"0", "1", "2"}
            THEN << [val |-> 10 + DigitVal[c2], len |-> 2] >> ELSE <<>>)
        \o (IF c1 = "0" /\ IsDigit(c2) /\ c2 # "0"
            THEN << [val |-> DigitVal[c2], len |-> 2] >> ELSE <<>>)
        \o (IF IsDigit(c1) /\ c1 # "0"
            THEN << [val |-> DigitVal[c1], len |-> 1] >> ELSE <<>>)

\* The alternatives of %d, (3[0-1]|[1-2]\d|0[1-9]|[1-9]| [1-9]), likewise.
DayAlts(s, p) ==
    LET c1 == IF p <= Len(s) THEN s[p] ELSE ""
        c2 == IF p + 1 <= Len(s) THEN s[p + 1] ELSE ""
    IN  (IF c1 = "3" /\ c2 \in {"0", "1"}
            THEN << [val |-> 30 + DigitVal[c2], len |-> 2] >> ELSE <<>>)
        \o (IF c1 \in {"1", "2"} /\ IsDigit(c2)
            THEN << [val |-> 10 * DigitVal[c1] + DigitVal[c2], len |-> 2] >> ELSE <<>>)
        \o (IF c1 = "0" /\ IsDigit(c2) /\ c2 # "0"
            THEN << [val |-> DigitVal[c2], len |-> 2] >> ELSE <<>>)
        \o (IF IsDigit(c1) /\ c1 # "0"
            THEN << [val |-> DigitVal[c1], len |-> 1] >> ELSE <<>>)
        \o (IF c1 = " " /\ IsDigit(c2) /\ c2 # "0"
            THEN << [val |-> DigitVal[c2], len |-> 2] >> ELSE <<>>)

\* datetime.strptime(s, "%Y%m%d").date(): [ok, date].  The regular expression
\* (\d\d\d\d)(month)(day) is matched at the start of s, backtracking over the
\* month alternatives until a day follows; the first match must consume all
\* of s, and the fields must name a real date of a year 1..9999.
ParseDate(s) ==
    LET bad == [ok |-> FALSE, date |-> Date(0, 0, 0)]
    IN  IF Len(s) < 4 \/ ~AllDigits(SubSeq(s, 1, 4)) THEN bad
        ELSE LET y   == DigitsToNat(SubSeq(s, 1, 4))
                 ms  == MonthAlts(s, 5)
                 fit == SelectSeq(ms, LAMBDA m : DayAlts(s, 5 + m.len) # <<>>)
             IN  IF fit = <<>> THEN bad
                 ELSE LET m == fit[1]
                          d == DayAlts(s, 5 + m.len)[1]
                      IN  IF 4 + m.len + d.len # Len(s) THEN bad
                          ELSE IF y < 1 THEN bad
                          ELSE IF d.val > DaysInMonth(y, m.val) THEN bad
                          ELSE [ok |-> TRUE, date |-> Date(y, m.val, d.val)]

\* Decimal(s) for a text made of sign, digits and point:
\* [sign] digits [ "." digits ]  |  [sign] "." digits.
\* [ok, neg, int, frac] with int and frac the digit strings around the point.
\* Texts with other characters (letters, a second sign or point) are not
\* numbers; exponents, underscores, blanks and the special values are outside
\* the alphabet of the texts the model feeds.
ParseDecimal(s) ==
    LET bad    == [ok |-> FALSE, neg |-> FALSE, int |-> <<>>, frac |-> <<>>]
        signed == s # <<>> /\ s[1] \in {"+", "-"}
        body   == IF signed THEN SubSeq(s, 2, Len(s)) ELSE s
        dots   == {i \in 1..Len(body) : body[i] = "."}
        ip     == IF dots = {} THEN body
                  ELSE SubSeq(body, 1, (CHOOSE i \in dots : TRUE) - 1)
        fp     == IF dots = {} THEN <<>>
                  ELSE SubSeq(body, (CHOOSE i \in dots : TRUE) + 1, Len(body))
    IN  IF Cardinality(dots) > 1 THEN bad
        ELSE IF ~AllDigits(ip) \/ ~AllDigits(fp) THEN bad
        ELSE IF ip = <<>> /\ fp = <<>> THEN bad
        ELSE [ok |-> TRUE, neg |-> signed /\ s[1] = "-", int |-> ip, frac |-> fp]

\* the variant of Quantize that drops the digits after the second
QuantizeDown(d) ==
    LET f(i) == IF i <= Len(d.frac) THEN DigitVal[d.frac[i]] ELSE 0
        mag  == DigitsToNat(d.int) * 100 + 10 * f(1) + f(2)
    IN  IF d.neg THEN 0 - mag ELSE mag

\* d.quantize(Decimal('0.01'), rounding=ROUND_HALF_UP): the coefficient of the
\* result, in hundredths, signed.  The magnitude is rounded: the third
\* fractional digit decides, 5 and above round away from zero.
Quantize(d) ==
    LET f(i) == IF i <= Len(d.frac) THEN DigitVal[d.frac[i]] ELSE 0
        mag  == DigitsToNat(d.int) * 100 + 10 * f(1) + f(2)
                + (IF f(3) >= 5 THEN 1 ELSE 0)
    IN  IF d.neg THEN 0 - mag ELSE mag

\* the Decimal with exponent -2 whose coefficient is c, as ParseDecimal shapes it
FromCents(c) ==
    LET mag == IF c < 0 THEN 0 - c ELSE c
    IN  [ok |-> TRUE, neg |-> c < 0, int |-> NatToDigits(mag \div 100),
         frac |-> ZeroPad(NatToDigits(mag % 100), 2)]

\* s.strip() for blanks
RECURSIVE Strip(_)
Strip(s) == IF s # <<>> /\ s[1] = " " THEN Strip(Tail(s))
            ELSE IF s # <<>> /\ s[Len(s)] = " " THEN Strip(SubSeq(s, 1, Len(s) - 1))
            ELSE s

\* int(s) for a text made of blanks, sign and digits: [ok, val].  Blanks
\* around the number are dropped, one sign may precede the digits; anything
\* else raises ValueError (ok is FALSE).
ParseInt(s) ==
    LET t      == Strip(s)
        signed == t # <<>> /\ t[1] \in {"+", "-"}
        body   == IF signed THEN Tail(t) ELSE t
    IN  IF body # <<>> /\ AllDigits(body)
          THEN [ok |-> TRUE,
                val |-> IF signed /\ t[1] = "-" THEN 0 - DigitsToNat(body)
                        ELSE DigitsToNat(body)]
        ELSE [ok |-> FALSE, val |-> 0]

(***************************************************************************)
(* Decimal arithmetic of the accrual loop                                   *)
(*                                                                          *)
(* Python's default decimal context keeps Prec significant digits and       *)
(* rounds half-even.  In calculate_interest the products balance * rate,    *)
(* / 100 and * num_days are exact (they have far fewer than Prec digits);   *)
(* the division by 365 and every += on the running total are rounded to     *)
(* Prec significant digits.  A value of the loop is [neg, dig]: a sign and  *)
(* a magnitude counting units of 10^-6 of the currency, written as NL limbs *)
(* of four decimal digits (numbers 0..9999, most significant first): three  *)
(* limbs before the point and FracLimbs after it.  The fraction has room    *)
(* for the Prec digits of the smallest non-zero quotient (1/365 = 0.0027..) *)
(* and a guard digit.  Decimal digit number k of a magnitude, k in          *)
(* 1..4*NL, is digit ((k - 1) % 4) + 1 of limb ((k - 1) \div 4) + 1.        *)
(***************************************************************************)

Prec == 28
DaysPerYear == 365
Pow10 == <<10, 100, 1000, 10000>>
LimbBase == Pow10[4]
FracLimbs == (Prec + 6) \div 4
NL == 3 + FracLimbs

\* F(e), with e evaluated once before F is applied to it
Let(e, F(_)) == CHOOSE r \in {F(v) : v \in {e}} : TRUE

\* the three limbs of a natural number below 10^12
IntLimbsOf(n) == << n \div (LimbBase * LimbBase), (n \div LimbBase) % LimbBase, n % LimbBase >>

\* long division: the first k limbs after the point of r / 365, for r < 365
RECURSIVE FracLimbsOf(_, _)
FracLimbsOf(r, k) ==
    IF k = 0 THEN <<>>
    ELSE <<(LimbBase * r) \div DaysPerYear>> \o FracLimbsOf((LimbBase * r) % DaysPerYear, k - 1)

\* the remainder left after those k limbs
RECURSIVE FracRem(_, _)
FracRem(r, k) == IF k = 0 THEN r ELSE FracRem((LimbBase * r) % DaysPerYear, k - 1)

ZeroLimbs == [i \in 1..NL |-> 0]
DecZero == [neg |-> FALSE, dig |-> ZeroLimbs]

\* x + y on magnitudes.  The carry into limb i is 1 exactly when some lower
\* limb pair overflows and every pair between sums to LimbBase - 1.
AddMag(x, y) ==
    LET carry(i) == \E j \in (i + 1)..NL :
                        /\ x[j] + y[j] >= LimbBase
                        /\ \A k \in (i + 1)..(j - 1) : x[k] + y[k] = LimbBase - 1
    IN  SubSeq([i \in 1..NL |-> (x[i] + y[i] + (IF carry(i) THEN 1 ELSE 0)) % LimbBase],
               1, NL)

\* x - y on magnitudes, for x >= y.  Limb i lends 1 exactly when some lower
\* limb of x is below y's and every limb between is equal.
SubMag(x, y) ==
    LET borrow(i) == \E j \in (i + 1)..NL :
                         /\ x[j] < y[j]
                         /\ \A k \in (i + 1)..(j - 1) : x[k] = y[k]
    IN  SubSeq([i \in 1..NL |->
                  (x[i] - y[i] - (IF borrow(i) THEN 1 ELSE 0) + LimbBase) % LimbBase],
               1, NL)

\* x >= y on magnitudes
GeMag(x, y) ==
    LET diff == {i \in 1..NL : x[i] # y[i]}
    IN  diff = {} \/ (LET i == CHOOSE j \in diff : \A k \in diff : j <= k IN x[i] > y[i])

\* the number of decimal digits of a non-zero limb
LimbLen(v) == IF v >= 1000 THEN 4 ELSE IF v >= 100 THEN 3 ELSE IF v >= 10 THEN 2 ELSE 1

\* Round a magnitude to Prec significant digits, half-even (the context's
\* rounding); sticky says that non-zero digits follow the magnitude.
\* p is the number of the first significant digit and c of the last one
\* kept; u is the weight of digit c inside its limb lc.
RoundSig(x, sticky) ==
    LET nz == {i \in 1..NL : x[i] # 0}
    IN  IF nz = {} THEN x
        ELSE LET pl == CHOOSE j \in nz : \A k \in nz : j <= k
                 p  == 4 * (pl - 1) + (4 - LimbLen(x[pl])) + 1
                 c  == p + Prec - 1
             IN  IF c >= 4 * NL THEN x
                 ELSE LET lc   == ((c - 1) \div 4) + 1
                          pos  == ((c - 1) % 4) + 1
                          u    == IF pos = 4 THEN 1 ELSE Pow10[4 - pos]
                          low  == x[lc] % u
                          \* the discarded digits against half a unit of digit c
                          first == IF u = 1 THEN x[lc + 1] ELSE low
                          half  == IF u = 1 THEN LimbBase \div 2 ELSE u \div 2
                          after == IF u = 1 THEN lc + 2 ELSE lc + 1
                          rest  == sticky \/ (\E j \in after..NL : x[j] # 0)
                          odd   == ((x[lc] \div u) % 2) = 1
                          up    == first > half \/ (first = half /\ (rest \/ odd))
                          kept  == [i \in 1..NL |-> IF i < lc THEN x[i]
                                                    ELSE IF i = lc THEN x[lc] - low ELSE 0]
                          one   == [i \in 1..NL |-> IF i = lc THEN u ELSE 0]
                      IN  IF up THEN AddMag(kept, one) ELSE SubSeq(kept, 1, NL)

\* the variant of DailyInterest that divides by the 366 days of a leap year
DailyInterest366(balance, rate, num_days) ==
    LET RECURSIVE limbs(_, _)
        limbs(r, k) == IF k = 0 THEN <<>>
                       ELSE <<(LimbBase * r) \div 366>> \o limbs((LimbBase * r) % 366, k - 1)
        RECURSIVE rem(_, _)
        rem(r, k) == IF k = 0 THEN r ELSE rem((LimbBase * r) % 366, k - 1)
        mag == (IF balance < 0 THEN 0 - balance ELSE balance) * rate
        q   == mag \div 366
        r   == mag % 366
        ip  == q * num_days + (r * num_days) \div 366
        r0  == (r * num_days) % 366
    IN  [neg |-> balance < 0 /\ mag # 0,
         dig |-> Let(IntLimbsOf(ip) \o limbs(r0, FracLimbs),
                     LAMBDA raw : RoundSig(raw, rem(r0, FracLimbs) # 0))]

\* (balance * rate / 100 * num_days) / 365 as the decimal context computes
\* it.  balance is in cents and rate in hundredths, so the dividend counts
\* balance * rate * num_days units of 10^-6 and is exact; the quotient is
\* rounded to Prec significant digits.  The dividend is divided as
\* (365 * q + r) * n so that no intermediate exceeds 32 bits.
DailyInterest(balance, rate, num_days) ==
    LET mag == (IF balance < 0 THEN 0 - balance ELSE balance) * rate
        q   == mag \div DaysPerYear
        r   == mag % DaysPerYear
        ip  == q * num_days + (r * num_days) \div DaysPerYear
        r0  == (r * num_days) % DaysPerYear
    IN  [neg |-> balance < 0 /\ mag # 0,
         dig |-> Let(IntLimbsOf(ip) \o FracLimbsOf(r0, FracLimbs),
                     LAMBDA raw : RoundSig(raw, FracRem(r0, FracLimbs) # 0))]

\* a + b in the decimal context: the exact sum, rounded to Prec digits
DecAdd(a, b) ==
    LET exact == IF a.neg = b.neg
                   THEN [neg |-> a.neg, dig |-> AddMag(a.dig, b.dig)]
                 ELSE IF GeMag(a.dig, b.dig)
                   THEN [neg |-> a.neg /\ a.dig # b.dig, dig |-> SubMag(a.dig, b.dig)]
                 ELSE [neg |-> b.neg, dig |-> SubMag(b.dig, a.dig)]
    IN  Let(exact, LAMBDA e : [neg |-> e.neg, dig |-> RoundSig(e.dig, FALSE)])

\* total.quantize(Decimal('0.01'), rounding=ROUND_HALF_UP), in cents: a cent
\* is 10^4 units, so the third limb holds the discarded digits, and a first
\* discarded digit of 5 or more rounds away from zero.
QuantizeTotal(t) ==
    LET mag == t.dig[1] * LimbBase + t.dig[2] + (IF t.dig[3] >= LimbBase \div 2 THEN 1 ELSE 0)
    IN  IF t.neg THEN 0 - mag ELSE mag

(***************************************************************************)
(* Transaction, InterestRule, BankAccount                                   *)
(***************************************************************************)

\* Transaction.__init__; amount is a Decimal as ParseDecimal / FromCents shape it
Transaction(date, account, transaction_type, amount, txn_id) ==
    [date |-> date, account |-> account, transaction_type |-> Upper(transaction_type),
     amount |-> Quantize(amount), txn_id |-> txn_id]

\* InterestRule.__init__
InterestRule(date, rule_id, rate) ==
    [date |-> date, rule_id |-> rule_id, rate |-> Quantize(rate)]

\* the variant of add_transaction that puts the transaction first
add_transaction_first(transactions, transaction) == <<transaction>> \o transactions

\* BankAccount.add_transaction
add_transaction(transactions, transaction) == Append(transactions, transaction)

\* BankAccount.get_balance_at_date, for the day with ordinal target: the loop
\* over the first n transactions
RECURSIVE BalanceLoop(_, _, _)
BalanceLoop(transactions, n, target) ==
    IF n = 0 THEN 0
    ELSE LET txn  == transactions[n]
             rest == BalanceLoop(transactions, n - 1, target)
         IN  IF Ordinal(txn.date) <= target
               THEN CASE txn.transaction_type = "D" -> rest + txn.amount
                      [] txn.transaction_type = "W" -> rest - txn.amount
                      [] txn.transaction_type = "I" -> rest + txn.amount
                      [] OTHER -> rest
               ELSE rest

\* the variant of get_balance_at_date that leaves Interest transactions out
RECURSIVE get_balance_without_interest(_, _)
get_balance_without_interest(transactions, target_date) ==
    IF transactions = <<>> THEN 0
    ELSE LET txn  == transactions[Len(transactions)]
             rest == get_balance_without_interest(
                         SubSeq(transactions, 1, Len(transactions) - 1), target_date)
         IN  IF Ordinal(txn.date) <= Ordinal(target_date) /\ txn.transaction_type = "D"
               THEN rest + txn.amount
             ELSE IF Ordinal(txn.date) <= Ordinal(target_date) /\ txn.transaction_type = "W"
               THEN rest - txn.amount
             ELSE rest

\* the variant of get_balance_at_date that stops the day before target_date
get_balance_before_date(transactions, target_date) ==
    BalanceLoop(transactions, Len(transactions), Ordinal(target_date) - 1)

\* BankAccount.get_balance_at_date
get_balance_at_date(transactions, target_date) ==
    BalanceLoop(transactions, Len(transactions), Ordinal(target_date))

\* the variant of can_withdraw that demands a balance above the amount
can_withdraw_strict(transactions, amount, date) ==
    get_balance_at_date(transactions, date) > amount

\* BankAccount.can_withdraw
can_withdraw(transactions, amount, date) ==
    get_balance_at_date(transactions, date) >= amount

(***************************************************************************)
(* BankSystem.calculate_interest: the computation                           *)
(***************************************************************************)

StartDate(year, month) == Date(year, month, 1)
EndDate(year, month) == Date(year, month, DaysInMonth(year, month))

InMonth(date, year, month) ==
    /\ Ordinal(StartDate(year, month)) <= Ordinal(date)
    /\ Ordinal(date) <= Ordinal(EndDate(year, month))

\* the variant of AccountTxns that stops the day before the end of the month
AccountTxnsBeforeEnd(transactions, year, month) ==
    SelectSeq(transactions, LAMBDA t : Ordinal(t.date) < Ordinal(EndDate(year, month)))

\* account_txns: the transactions dated up to the end of the month
AccountTxns(transactions, year, month) ==
    SelectSeq(transactions, LAMBDA t : Ordinal(t.date) <= Ordinal(EndDate(year, month)))

\* the variant of InterestTxns that finds no Interest transaction
InterestTxnsNone(transactions, year, month) == <<>>

\* the variant of InterestTxns that looks for the type in lower case, which no
\* stored transaction has
InterestTxnsLowerCase(transactions, year, month) ==
    SelectSeq(transactions,
              LAMBDA t : t.transaction_type = "i" /\ t.date.year = year /\ t.date.month = month)

\* interest_txns: the Interest transactions already dated in the month
InterestTxns(transactions, year, month) ==
    SelectSeq(AccountTxns(transactions, year, month),
              LAMBDA t : t.transaction_type = "I" /\ t.date.year = year /\ t.date.month = month)

\* a set of dates, ascending
RECURSIVE SortedDates(_)
SortedDates(S) ==
    IF S = {} THEN <<>>
    ELSE LET d == CHOOSE x \in S : \A y \in S : Ordinal(x) <= Ordinal(y)
         IN  <<d>> \o SortedDates(S \ {d})

\* balance_change_dates, sorted
BalanceChangeDates(transactions, rules, year, month) ==
    SortedDates({transactions[i].date : i \in {j \in 1..Len(transactions) :
                                                InMonth(transactions[j].date, year, month)}}
                \cup {rules[i].date : i \in {j \in 1..Len(rules) :
                                                InMonth(rules[j].date, year, month)}}
                \cup {StartDate(year, month)})

\* The periods the accrual loop visits: for the i-th date, unless it is the
\* last day of the month, [current_date, num_days] with num_days counted up
\* to the next date, or up to the day after the month for the last one.
Periods(dates, year, month) ==
    LET end  == EndDate(year, month)
        next(i) == IF i + 1 <= Len(dates) THEN Ordinal(dates[i + 1]) ELSE Ordinal(end) + 1
        per(i)  == [current_date |-> dates[i], num_days |-> next(i) - Ordinal(dates[i])]
    IN  SelectSeq([i \in 1..Len(dates) |-> per(i)], LAMBDA q : q.current_date # end)

\* the variant of ApplicableRule that stops at the first rule of the list
\* dated on or before current_date
ApplicableRuleFirst(rules, current_date) ==
    LET ok == {i \in 1..Len(rules) : Ordinal(rules[i].date) <= Ordinal(current_date)}
    IN  IF ok = {} THEN 0 ELSE CHOOSE i \in ok : \A j \in ok : i <= j

\* applicable_rule: the last rule of the list dated on or before current_date;
\* 0 stands for no rule
ApplicableRule(rules, current_date) ==
    LET ok == {i \in 1..Len(rules) : Ordinal(rules[i].date) <= Ordinal(current_date)}
    IN  IF ok = {} THEN 0 ELSE CHOOSE i \in ok : \A j \in ok : j <= i

\* the accrual loop from period i on, total_interest so far being total
RECURSIVE AccrualLoop(_, _, _, _, _)
AccrualLoop(periods, i, transactions, rules, total) ==
    IF i > Len(periods) THEN total
    ELSE LET cur     == periods[i].current_date
             balance == get_balance_at_date(transactions, cur)
             r       == ApplicableRule(rules, cur)
         IN  IF r = 0 THEN AccrualLoop(periods, i + 1, transactions, rules, total)
             ELSE Let(DailyInterest(balance, rules[r].rate, periods[i].num_days),
                      LAMBDA daily_interest :
                        Let(DecAdd(total, daily_interest),
                            LAMBDA t : AccrualLoop(periods, i + 1, transactions, rules, t)))

\* total_interest after the final quantize, in cents
TotalInterest(transactions, rules, year, month) ==
    QuantizeTotal(AccrualLoop(
        Periods(BalanceChangeDates(AccountTxns(transactions, year, month), rules, year, month),
                year, month),
        1, transactions, rules, DecZero))

(***************************************************************************)
(* Statement rows                                                           *)
(***************************************************************************)

\* txn.txn_id or ""
IdOrEmpty(txn) == IF txn.txn_id = None THEN <<>> ELSE txn.txn_id

\* s < t for Python strings: by code point, a proper prefix first
StrLess(s, t) ==
    LET n    == IF Len(s) < Len(t) THEN Len(s) ELSE Len(t)
        diff == {i \in 1..n : s[i] # t[i]}
    IN  IF diff = {} THEN Len(s) < Len(t)
        ELSE LET i == CHOOSE j \in diff : \A k \in diff : j <= k
             IN  CharCode(s[i]) < CharCode(t[i])

\* key(a) < key(b) for the sort key (x.date, x.txn_id or "")
KeyLess(a, b) ==
    \/ Ordinal(a.date) < Ordinal(b.date)
    \/ Ordinal(a.date) = Ordinal(b.date) /\ StrLess(IdOrEmpty(a), IdOrEmpty(b))

\* sorted(txns, key=...): stable, so each element goes after the elements
\* already placed whose key is not greater
RECURSIVE SortedTxns(_)
SortedTxns(txns) ==
    IF txns = <<>> THEN <<>>
    ELSE LET init == SortedTxns(SubSeq(txns, 1, Len(txns) - 1))
             x    == txns[Len(txns)]
             k    == Cardinality({i \in 1..Len(init) : ~KeyLess(x, init[i])})
         IN  SubSeq(init, 1, k) \o <<x>> \o SubSeq(init, k + 1, Len(init))

\* the signed amount a transaction adds to a running balance
Signed(txn) == CASE txn.transaction_type = "D" -> txn.amount
                 [] txn.transaction_type = "W" -> 0 - txn.amount
                 [] txn.transaction_type = "I" -> txn.amount
                 [] OTHER -> 0

\* running_balance after the first k of the sorted transactions
RECURSIVE RunningBalance(_, _, _)
RunningBalance(sorted_txns, k, opening) ==
    IF k = 0 THEN opening
    ELSE RunningBalance(sorted_txns, k - 1, opening) + Signed(sorted_txns[k])

\* the rows printed for the first n of the sorted transactions, the running
\* balance having started at opening
RECURSIVE Rows(_, _, _, _)
Rows(sorted_txns, n, opening, with_balance) ==
    IF n = 0 THEN <<>>
    ELSE Append(Rows(sorted_txns, n - 1, opening, with_balance),
                [date_str |-> Strftime(sorted_txns[n].date),
                 txn_id |-> IdOrEmpty(sorted_txns[n]),
                 type |-> sorted_txns[n].transaction_type,
                 amount |-> sorted_txns[n].amount,
                 has_balance |-> with_balance,
                 balance |-> IF with_balance
                               THEN RunningBalance(sorted_txns, n, opening) ELSE 0])

(***************************************************************************)
(* BankSystem: the operations                                               *)
(***************************************************************************)

\* The last call and what it returned: the method (op), the account id it
\* was given (account, "" when it takes none), the month it was given (period,
\* <<>> when it takes none), the Python type of the result (ret), its message
\* or text pieces (msg), its number in cents (val) and its table rows (out).
Result(op, account, period, ret, msg, val, out) ==
    [op |-> op, account |-> account, period |-> period, ret |-> ret, msg |-> msg,
     val |-> val, out |-> out]

\* the transactions of an account, none when the id is unknown
TxnsOf(accts, account_id) ==
    IF account_id \in DOMAIN accts THEN accts[account_id] ELSE <<>>

\* the sum of the counters of the date texts in S
RECURSIVE SumCounters(_, _)
SumCounters(counters, S) ==
    IF S = {} THEN 0
    ELSE LET k == CHOOSE x \in S : TRUE
         IN  counters[k] + SumCounters(counters, S \ {k})

\* the number of ids issued so far
Issued == SumCounters(transaction_counters, DOMAIN transaction_counters)

\* The callers of the one BankSystem.  A caller is idle or inside a call, at
\* the line named by pc, with the call's arguments and local variables.
CallerIds == {1, 2}

\* The BankAccount a caller's local variable account refers to.  ref is
\* "none" before the variable is bound, "live" while the object is the one
\* the mapping self.accounts holds under the account id, and "orphan" once
\* line 72 of another call has put a new BankAccount in its place: the
\* caller then holds the only reference to the replaced object, and
\* transactions is that object's list.
NoAccount == [ref |-> "none", transactions |-> <<>>]
LiveAccount == [ref |-> "live", transactions |-> <<>>]
IdleCaller ==
    [pc |-> "idle", account_id |-> "", account |-> NoAccount,
     date_str |-> <<>>, txn_type |-> "", date |-> Date(0, 0, 0), amount |-> 0,
     txn_id |-> <<>>, year |-> 0, month |-> 0, account_txns |-> <<>>,
     balance_change_dates |-> <<>>, i |-> 0, total_interest |-> DecZero]

\* no caller inside a call; locking says whether the callers take a common
\* lock around every call (external locking: the class has none)
NoCallers(locking) == [locking |-> locking, of |-> [c \in CallerIds |-> IdleCaller]]

\* BankSystem.__init__
Init ==
    /\ accounts = <<>>
    /\ interest_rules = <<>>
    /\ transaction_counters = <<>>
    /\ last = Result("__init__", "", <<>>, "None", <<>>, 0, <<>>)
    /\ callers = NoCallers(TRUE)

\* the variant of Validate that lets an amount of zero pass
ValidateFromZero(date_str, txn_type, amount_str) ==
    IF ~ParseDate(date_str).ok
      THEN "Invalid date format. Please use YYYYMMDD format."
    ELSE IF Upper(txn_type) \notin {"D", "W"}
      THEN "Invalid transaction type. Use D for deposit or W for withdrawal."
    ELSE IF ~ParseDecimal(amount_str).ok
      THEN "Invalid amount format."
    ELSE IF Quantize(ParseDecimal(amount_str)) < 0
      THEN "Amount must be greater than zero."
    ELSE ""

\* the variant of Validate that checks the amount before the type
ValidateAmountFirst(date_str, txn_type, amount_str) ==
    IF ~ParseDate(date_str).ok
      THEN "Invalid date format. Please use YYYYMMDD format."
    ELSE IF ~ParseDecimal(amount_str).ok
      THEN "Invalid amount format."
    ELSE IF Quantize(ParseDecimal(amount_str)) <= 0
      THEN "Amount must be greater than zero."
    ELSE IF Upper(txn_type) \notin {"D", "W"}
      THEN "Invalid transaction type. Use D for deposit or W for withdrawal."
    ELSE ""

\* create_transaction's validation of its texts: the message of the first
\* check that fails, "" when the date, the type and the amount all pass
Validate(date_str, txn_type, amount_str) ==
    IF ~ParseDate(date_str).ok
      THEN "Invalid date format. Please use YYYYMMDD format."
    ELSE IF Upper(txn_type) \notin {"D", "W"}
      THEN "Invalid transaction type. Use D for deposit or W for withdrawal."
    ELSE IF ~ParseDecimal(amount_str).ok
      THEN "Invalid amount format."
    ELSE IF Quantize(ParseDecimal(amount_str)) <= 0
      THEN "Amount must be greater than zero."
    ELSE ""

\* self.accounts after "Create or get account"
WithAccount(accts, account_id) ==
    IF account_id \in DOMAIN accts THEN accts
    ELSE [a \in DOMAIN accts \cup {account_id} |->
            IF a = account_id THEN <<>> ELSE accts[a]]

\* self.transaction_counters after the increment for date_key
Incremented(counters, date_key) ==
    [k \in DOMAIN counters \cup {date_key} |->
        IF k = date_key
          THEN (IF date_key \in DOMAIN counters THEN counters[date_key] ELSE 0) + 1
        ELSE counters[k]]

\* f"{date_str}-{count:02d}"
TxnId(date_str, count) == date_str \o <<"-">> \o Format02d(count)

\* the variant of create_transaction that takes the next number of the date
\* before it checks the funds
create_transaction_counting_first(date_str, account_id, txn_type, amount_str) ==
    LET date     == ParseDate(date_str).date
        amount   == Quantize(ParseDecimal(amount_str))
        invalid  == Validate(date_str, txn_type, amount_str)
        fail(m)  == Result("create_transaction", account_id, <<>>, "False", <<m>>, 0, <<>>)
        accts    == WithAccount(accounts, account_id)
        counters == Incremented(transaction_counters, date_str)
        txn_id   == TxnId(date_str, counters[date_str])
    IN  IF invalid # ""
          THEN /\ last' = fail(invalid)
               /\ UNCHANGED <<accounts, interest_rules, transaction_counters, callers>>
        ELSE IF Upper(txn_type) = "W" /\ ~can_withdraw(accts[account_id], amount, date)
          THEN /\ last' = fail("Insufficient funds for withdrawal.")
               /\ accounts' = accts
               /\ transaction_counters' = counters
               /\ UNCHANGED <<interest_rules, callers>>
        ELSE /\ transaction_counters' = counters
             /\ accounts' = [accts EXCEPT ![account_id] =
                    add_transaction(@, Transaction(date, account_id, txn_type,
                                                   FromCents(amount), txn_id))]
             /\ last' = Result("create_transaction", account_id, <<>>, "True",
                               <<account_id>>, 0, <<>>)
             /\ UNCHANGED <<interest_rules, callers>>

\* BankSystem.create_transaction
create_transaction(date_str, account_id, txn_type, amount_str) ==
    LET date     == ParseDate(date_str).date
        amount   == Quantize(ParseDecimal(amount_str))
        invalid  == Validate(date_str, txn_type, amount_str)
        fail(m)  == Result("create_transaction", account_id, <<>>, "False", <<m>>, 0, <<>>)
        accts    == WithAccount(accounts, account_id)
        counters == Incremented(transaction_counters, date_str)
        txn_id   == TxnId(date_str, counters[date_str])
    IN  IF invalid # ""
          THEN /\ last' = fail(invalid)
               /\ UNCHANGED <<accounts, interest_rules, transaction_counters, callers>>
        ELSE IF Upper(txn_type) = "W" /\ ~can_withdraw(accts[account_id], amount, date)
          THEN /\ last' = fail("Insufficient funds for withdrawal.")
               /\ accounts' = accts
               /\ UNCHANGED <<interest_rules, transaction_counters, callers>>
        ELSE /\ transaction_counters' = counters
             /\ accounts' = [accts EXCEPT ![account_id] =
                    add_transaction(@, Transaction(date, account_id, txn_type,
                                                   FromCents(amount), txn_id))]
             /\ last' = Result("create_transaction", account_id, <<>>, "True",
                               <<account_id>>, 0, <<>>)
             /\ UNCHANGED <<interest_rules, callers>>

\* the variant of SortRules that leaves the list in the order of the adds
SortRulesNot(rules) == rules

\* the rule list sorted by date: list.sort is stable, and the new rule, the
\* only one of its date, goes after the rules dated before it
RECURSIVE SortRules(_)
SortRules(rules) ==
    IF rules = <<>> THEN <<>>
    ELSE LET init == SortRules(SubSeq(rules, 1, Len(rules) - 1))
             x    == rules[Len(rules)]
             k    == Cardinality({i \in 1..Len(init) :
                                    Ordinal(init[i].date) <= Ordinal(x.date)})
         IN  SubSeq(init, 1, k) \o <<x>> \o SubSeq(init, k + 1, Len(init))

\* the variant of add_interest_rule that accepts a rate of exactly 100
add_interest_rule_upto_100(date_str, rule_id, rate_str) ==
    LET pd   == ParseDate(date_str)
        dec  == ParseDecimal(rate_str)
        rate == Quantize(dec)
        fail(m) == Result("add_interest_rule", "", <<>>, "False", <<m>>, 0, <<>>)
        \* Remove any existing rule for the same date
        kept == SelectSeq(interest_rules, LAMBDA rule : rule.date # pd.date)
    IN  IF ~pd.ok
          THEN /\ last' = fail("Invalid date format. Please use YYYYMMDD format.")
               /\ UNCHANGED <<accounts, interest_rules, transaction_counters, callers>>
        ELSE IF ~dec.ok
          THEN /\ last' = fail("Invalid rate format.")
               /\ UNCHANGED <<accounts, interest_rules, transaction_counters, callers>>
        ELSE IF rate <= 0 \/ rate > 10000
          THEN /\ last' = fail("Interest rate must be greater than 0 and less than 100.")
               /\ UNCHANGED <<accounts, interest_rules, transaction_counters, callers>>
        ELSE /\ interest_rules' =
                    SortRules(Append(kept, InterestRule(pd.date, rule_id, FromCents(rate))))
             /\ last' = Result("add_interest_rule", "", <<>>, "True", <<>>, 0, <<>>)
             /\ UNCHANGED <<accounts, transaction_counters, callers>>

\* BankSystem.add_interest_rule
add_interest_rule(date_str, rule_id, rate_str) ==
    LET pd   == ParseDate(date_str)
        dec  == ParseDecimal(rate_str)
        rate == Quantize(dec)
        fail(m) == Result("add_interest_rule", "", <<>>, "False", <<m>>, 0, <<>>)
        \* Remove any existing rule for the same date
        kept == SelectSeq(interest_rules, LAMBDA rule : rule.date # pd.date)
    IN  IF ~pd.ok
          THEN /\ last' = fail("Invalid date format. Please use YYYYMMDD format.")
               /\ UNCHANGED <<accounts, interest_rules, transaction_counters, callers>>
        ELSE IF ~dec.ok
          THEN /\ last' = fail("Invalid rate format.")
               /\ UNCHANGED <<accounts, interest_rules, transaction_counters, callers>>
        ELSE IF rate <= 0 \/ rate >= 10000
          THEN /\ last' = fail("Interest rate must be greater than 0 and less than 100.")
               /\ UNCHANGED <<accounts, interest_rules, transaction_counters, callers>>
        ELSE /\ interest_rules' =
                    SortRules(Append(kept, InterestRule(pd.date, rule_id, FromCents(rate))))
             /\ last' = Result("add_interest_rule", "", <<>>, "True", <<>>, 0, <<>>)
             /\ UNCHANGED <<accounts, transaction_counters, callers>>

\* the variant of PostInterest that gives the Interest transaction an id of
\* its date, as create_transaction does for deposits and withdrawals
PostInterestWithId(accts, account_id, end_date, total_interest) ==
    IF total_interest > 0
      THEN [ret |-> "Decimal", val |-> total_interest,
            accts |-> [accts EXCEPT ![account_id] =
                         add_transaction(@, [date |-> end_date, account |-> account_id,
                                             transaction_type |-> "I",
                                             amount |-> total_interest,
                                             txn_id |-> TxnId(Strftime(end_date), 1)])]]
    ELSE [ret |-> "Decimal", val |-> 0, accts |-> accts]

\* the variant of PostInterest that posts a total of zero as well
PostInterestFromZero(accts, account_id, end_date, total_interest) ==
    IF total_interest >= 0
      THEN [ret |-> "Decimal", val |-> total_interest,
            accts |-> [accts EXCEPT ![account_id] =
                         add_transaction(@, [date |-> end_date, account |-> account_id,
                                             transaction_type |-> "I",
                                             amount |-> total_interest, txn_id |-> <<"None">>])]]
    ELSE [ret |-> "Decimal", val |-> 0, accts |-> accts]

\* The end of calculate_interest, total_interest being the quantized total in
\* cents: a total above zero is posted as an Interest transaction dated
\* end_date and returned, any other total returns Decimal('0').
PostInterest(accts, account_id, end_date, total_interest) ==
    IF total_interest > 0
      THEN [ret |-> "Decimal", val |-> total_interest,
            accts |-> [accts EXCEPT ![account_id] =
                         add_transaction(@, Transaction(end_date, account_id, "I",
                                                        FromCents(total_interest), None))]]
    ELSE [ret |-> "Decimal", val |-> 0, accts |-> accts]

\* What calculate_interest does to the account list and what it returns:
\* [ret, val, accts].  ret is "raise" when calendar.monthrange or datetime
\* rejects the year or month, or when the day after 9999-12-31 is asked for.
CalculateInterest(accts, rules, account_id, year, month) ==
    LET same(ret) == [ret |-> ret, val |-> 0, accts |-> accts]
    IN  IF account_id \notin DOMAIN accts THEN same("None")
        ELSE IF month < 1 \/ month > 12 \/ year < 1 \/ year > 9999 THEN same("raise")
        ELSE LET transactions == accts[account_id]
                 end_date     == EndDate(year, month)
                 account_txns == AccountTxns(transactions, year, month)
                 dates        == BalanceChangeDates(account_txns, rules, year, month)
             IN  IF account_txns = <<>> THEN same("None")
                 ELSE IF InterestTxns(transactions, year, month) # <<>> THEN same("None")
                 ELSE IF year = 9999 /\ month = 12 /\ dates[Len(dates)] # end_date
                   THEN same("raise")
                 ELSE PostInterest(accts, account_id, end_date,
                                   TotalInterest(transactions, rules, year, month))

\* A caller's account.get_balance_at_date(target_date) on a known account:
\* the result is the balance, and nothing else changes.
query_balance_at_date(account_id, target_date) ==
    /\ account_id \in DOMAIN accounts
    /\ last' = Result("get_balance_at_date", account_id,
                      <<target_date.year, target_date.month, target_date.day>>, "Decimal",
                      <<>>, get_balance_at_date(accounts[account_id], target_date), <<>>)
    /\ UNCHANGED <<accounts, interest_rules, transaction_counters, callers>>

\* BankSystem.calculate_interest
calculate_interest(account_id, year, month) ==
    LET r == CalculateInterest(accounts, interest_rules, account_id, year, month)
    IN  /\ accounts' = r.accts
        /\ last' = Result("calculate_interest", account_id, <<year, month>>, r.ret, <<>>, r.val, <<>>)
        /\ UNCHANGED <<interest_rules, transaction_counters, callers>>

\* the variant of print_account_transactions that opens the account it is
\* asked for, as create_transaction does
print_account_transactions_creating(account_id, with_balance) ==
    /\ last' = IF account_id \notin DOMAIN accounts
                 THEN Result("print_account_transactions", account_id, <<>>, "str",
                             <<"Account ", account_id, " does not exist.">>, 0, <<>>)
               ELSE LET sorted_txns == SortedTxns(accounts[account_id])
                    IN  Result("print_account_transactions", account_id, <<>>, "str",
                               <<"Account: ", account_id>>, 0,
                               Rows(sorted_txns, Len(sorted_txns), 0, with_balance))
    /\ accounts' = WithAccount(accounts, account_id)
    /\ UNCHANGED <<interest_rules, transaction_counters, callers>>

\* BankSystem.print_account_transactions
print_account_transactions(account_id, with_balance) ==
    /\ last' = IF account_id \notin DOMAIN accounts
                 THEN Result("print_account_transactions", account_id, <<>>, "str",
                             <<"Account ", account_id, " does not exist.">>, 0, <<>>)
               ELSE LET sorted_txns == SortedTxns(accounts[account_id])
                    IN  Result("print_account_transactions", account_id, <<>>, "str",
                               <<"Account: ", account_id>>, 0,
                               Rows(sorted_txns, Len(sorted_txns), 0, with_balance))
    /\ UNCHANGED <<accounts, interest_rules, transaction_counters, callers>>

\* the variant of DayBefore that stays on the date
SameDay(d) == d

\* the day before a date
DayBefore(d) ==
    IF d.day > 1 THEN Date(d.year, d.month, d.day - 1)
    ELSE IF d.month > 1 THEN Date(d.year, d.month - 1, DaysInMonth(d.year, d.month - 1))
    ELSE Date(d.year - 1, 12, 31)

\* the variant of MonthlyStatement that does not run the accrual first
MonthlyStatementNoAccrual(accts, rules, account_id, year_month) ==
    LET text(m)  == Result("print_monthly_statement", account_id, year_month, "str", m, 0, <<>>)
        raise    == Result("print_monthly_statement", account_id, year_month, "raise", <<>>, 0, <<>>)
        py       == ParseInt(Slice(year_month, 1, 4))
        pm       == ParseInt(Slice(year_month, 5, Len(year_month)))
        year     == py.val
        month    == pm.val
        r        == [ret |-> "None", val |-> 0, accts |-> accts]
        start_date  == StartDate(year, month)
        month_txns  == SelectSeq(r.accts[account_id], LAMBDA t : InMonth(t.date, year, month))
        sorted_txns == SortedTxns(month_txns)
        starting_balance == get_balance_at_date(r.accts[account_id], DayBefore(start_date))
    IN  IF account_id \notin DOMAIN accts
          THEN [accts |-> accts, last |-> text(<<"Account ", account_id, " does not exist.">>)]
        ELSE IF ~py.ok \/ ~pm.ok
          THEN [accts |-> accts,
                last |-> text(<<"Invalid year/month format. Please use YYYYMM format.">>)]
        ELSE IF month < 1 \/ month > 12
          THEN [accts |-> accts, last |-> text(<<"Invalid month.">>)]
        ELSE IF r.ret = "raise"
          THEN [accts |-> accts, last |-> raise]
        ELSE [accts |-> r.accts,
              last |-> IF month_txns = <<>>
                         THEN text(<<"No transactions found for account ", account_id,
                                     " in ">> \o year_month \o <<".">>)
                       ELSE IF year = 1 /\ month = 1 THEN raise
                       ELSE Result("print_monthly_statement", account_id, year_month, "str",
                                   <<"Account: ", account_id>>, 0,
                                   Rows(sorted_txns, Len(sorted_txns), starting_balance, TRUE))]

\* What print_monthly_statement does to the account list and what it
\* returns: [accts, last].  It raises when calculate_interest does, and when
\* the day before 0001-01-01 is asked for.
MonthlyStatement(accts, rules, account_id, year_month) ==
    LET text(m)  == Result("print_monthly_statement", account_id, year_month, "str", m, 0, <<>>)
        raise    == Result("print_monthly_statement", account_id, year_month, "raise", <<>>, 0, <<>>)
        py       == ParseInt(Slice(year_month, 1, 4))
        pm       == ParseInt(Slice(year_month, 5, Len(year_month)))
        year     == py.val
        month    == pm.val
        \* Calculate interest for this month if it hasn't been calculated yet
        r        == CalculateInterest(accts, rules, account_id, year, month)
        start_date  == StartDate(year, month)
        month_txns  == SelectSeq(r.accts[account_id], LAMBDA t : InMonth(t.date, year, month))
        sorted_txns == SortedTxns(month_txns)
        starting_balance == get_balance_at_date(r.accts[account_id], DayBefore(start_date))
    IN  IF account_id \notin DOMAIN accts
          THEN [accts |-> accts, last |-> text(<<"Account ", account_id, " does not exist.">>)]
        ELSE IF ~py.ok \/ ~pm.ok
          THEN [accts |-> accts,
                last |-> text(<<"Invalid year/month format. Please use YYYYMM format.">>)]
        ELSE IF month < 1 \/ month > 12
          THEN [accts |-> accts, last |-> text(<<"Invalid month.">>)]
        ELSE IF r.ret = "raise"
          THEN [accts |-> accts, last |-> raise]
        ELSE [accts |-> r.accts,
              last |-> IF month_txns = <<>>
                         THEN text(<<"No transactions found for account ", account_id,
                                     " in ">> \o year_month \o <<".">>)
                       ELSE IF year = 1 /\ month = 1 THEN raise
                       ELSE Result("print_monthly_statement", account_id, year_month, "str",
                                   <<"Account: ", account_id>>, 0,
                                   Rows(sorted_txns, Len(sorted_txns), starting_balance, TRUE))]

\* BankSystem.print_monthly_statement
print_monthly_statement(account_id, year_month) ==
    LET s == MonthlyStatement(accounts, interest_rules, account_id, year_month)
    IN  /\ accounts' = s.accts
        /\ last' = s.last
        /\ UNCHANGED <<interest_rules, transaction_counters, callers>>

\* BankSystem.print_interest_rules
print_interest_rules ==
    /\ last' = IF interest_rules = <<>>
                 THEN Result("print_interest_rules", "", <<>>, "str",
                             <<"No interest rules defined.">>, 0, <<>>)
               ELSE Result("print_interest_rules", "", <<>>, "str", <<"Interest rules:">>, 0,
                           [i \in 1..Len(interest_rules) |->
                              [date_str |-> Strftime(interest_rules[i].date),
                               rule_id |-> interest_rules[i].rule_id,
                               rate |-> interest_rules[i].rate]])
    /\ UNCHANGED <<accounts, interest_rules, transaction_counters, callers>>

(***************************************************************************)
(* Callers that are not synchronised: create_transaction and                *)
(* calculate_interest line by line.  A step is what one caller does at its  *)
(* line; another caller's step may come between any two.  A caller keeps    *)
(* the BankAccount it has bound to account and the list account_txns it     *)
(* has copied, whatever the mapping and the account hold later.             *)
(***************************************************************************)

\* the callers other than c are outside every call
OthersIdle(c) == \A d \in CallerIds \ {c} : callers.of[d].pc = "idle"

\* the variant of MayBegin that pays no regard to the lock
MayBeginAlways(c) == TRUE

\* Caller c may begin a call: always when the callers take no lock, and
\* under the lock only while no other caller is inside a call.
MayBegin(c) == callers.locking => OthersIdle(c)

\* callers with caller c at r
SetCaller(c, r) == [callers EXCEPT !.of[c] = r]


\* account.transactions of the object a caller holds
AccountOf(me) ==
    IF me.account.ref = "live" THEN accounts[me.account_id] ELSE me.account.transactions

\* The callers after a new BankAccount was stored under account_id, old
\* being the list of the object it replaces: every caller whose account is
\* that object keeps it, now out of the mapping.  (With two callers, the one
\* that does not store is the only one that can hold it.)
Replaced(cs, account_id, old) ==
    [cs EXCEPT !.of = [d \in CallerIds |->
        IF cs.of[d].account_id = account_id /\ cs.of[d].account.ref = "live"
          THEN [cs.of[d] EXCEPT !.account = [ref |-> "orphan", transactions |-> old]]
        ELSE cs.of[d]]]

\* create_transaction, lines 52-71: the validation and the test
\* "account_id not in self.accounts".  A call with a bad argument returns
\* here.
begin_create_transaction(c, date_str, account_id, txn_type, amount_str) ==
    LET date    == ParseDate(date_str).date
        amount  == Quantize(ParseDecimal(amount_str))
        invalid == Validate(date_str, txn_type, amount_str)
    IN  /\ callers.of[c].pc = "idle"
        /\ MayBegin(c)
        /\ IF invalid # ""
             THEN /\ last' = Result("create_transaction", account_id, <<>>, "False",
                                    <<invalid>>, 0, <<>>)
                  /\ UNCHANGED <<accounts, interest_rules, transaction_counters, callers>>
           ELSE /\ callers' = SetCaller(c, [IdleCaller EXCEPT
                                 !.pc = IF account_id \in DOMAIN accounts
                                          THEN "get_account" ELSE "new_account",
                                 !.account_id = account_id,
                                 !.date_str = date_str, !.txn_type = txn_type,
                                 !.date = date, !.amount = amount])
                /\ UNCHANGED <<accounts, interest_rules, transaction_counters, last>>

\* line 72: self.accounts[account_id] = BankAccount(account_id), whatever
\* the mapping holds under the id by now
new_account(c) ==
    LET me == callers.of[c]
    IN  /\ me.pc = "new_account"
        /\ accounts' = [k \in DOMAIN accounts \cup {me.account_id} |->
                          IF k = me.account_id THEN <<>> ELSE accounts[k]]
        /\ callers' = [Replaced(callers, me.account_id, TxnsOf(accounts, me.account_id))
                          EXCEPT !.of[c] = [me EXCEPT !.pc = "get_account"]]
        /\ UNCHANGED <<interest_rules, transaction_counters, last>>

\* line 74: account = self.accounts[account_id]
get_account(c) ==
    /\ callers.of[c].pc = "get_account"
    /\ callers' = SetCaller(c, [callers.of[c] EXCEPT
                     !.pc = "can_withdraw", !.account = LiveAccount])
    /\ UNCHANGED <<accounts, interest_rules, transaction_counters, last>>

\* lines 77-78: a withdrawal the account the caller holds cannot cover
\* returns here
check_withdrawal(c) ==
    LET me == callers.of[c]
    IN  /\ me.pc = "can_withdraw"
        /\ IF Upper(me.txn_type) = "W" /\ ~can_withdraw(AccountOf(me), me.amount, me.date)
             THEN /\ last' = Result("create_transaction", me.account_id, <<>>, "False",
                                    <<"Insufficient funds for withdrawal.">>, 0, <<>>)
                  /\ callers' = SetCaller(c, IdleCaller)
                  /\ UNCHANGED <<accounts, interest_rules, transaction_counters>>
           ELSE /\ callers' = SetCaller(c, [me EXCEPT !.pc = "test"])
                /\ UNCHANGED <<accounts, interest_rules, transaction_counters, last>>

\* lines 81-82: if date_key not in self.transaction_counters
test_counter(c) ==
    /\ callers.of[c].pc = "test"
    /\ callers' = SetCaller(c, [callers.of[c] EXCEPT
                     !.pc = IF callers.of[c].date_str \in DOMAIN transaction_counters
                              THEN "increment" ELSE "zero"])
    /\ UNCHANGED <<accounts, interest_rules, transaction_counters, last>>

\* line 83: self.transaction_counters[date_key] = 0
zero_counter(c) ==
    /\ callers.of[c].pc = "zero"
    /\ transaction_counters' =
          [k \in DOMAIN transaction_counters \cup {callers.of[c].date_str} |->
              IF k = callers.of[c].date_str THEN 0 ELSE transaction_counters[k]]
    /\ callers' = SetCaller(c, [callers.of[c] EXCEPT !.pc = "increment"])
    /\ UNCHANGED <<accounts, interest_rules, last>>

\* line 84: self.transaction_counters[date_key] += 1
increment_counter(c) ==
    /\ callers.of[c].pc = "increment"
    /\ transaction_counters' = Incremented(transaction_counters, callers.of[c].date_str)
    /\ callers' = SetCaller(c, [callers.of[c] EXCEPT !.pc = "format"])
    /\ UNCHANGED <<accounts, interest_rules, last>>

\* line 85: txn_id = f"{date_str}-{self.transaction_counters[date_key]:02d}",
\* which reads the counter again
format_txn_id(c) ==
    /\ callers.of[c].pc = "format"
    /\ callers' = SetCaller(c, [callers.of[c] EXCEPT
                     !.pc = "post",
                     !.txn_id = TxnId(callers.of[c].date_str,
                                      transaction_counters[callers.of[c].date_str])])
    /\ UNCHANGED <<accounts, interest_rules, transaction_counters, last>>

\* lines 88-91: the Transaction is made and appended to the account the
\* caller holds, and the call returns.  Appended to an object that is out of
\* the mapping, it is in no account of the bank.
post_transaction(c) ==
    LET me == callers.of[c]
    IN  /\ me.pc = "post"
        /\ accounts' = IF me.account.ref = "live"
                         THEN [accounts EXCEPT ![me.account_id] =
                                 add_transaction(@, Transaction(me.date, me.account_id,
                                                                me.txn_type,
                                                                FromCents(me.amount),
                                                                me.txn_id))]
                       ELSE accounts
        /\ last' = Result("create_transaction", me.account_id, <<>>, "True",
                          <<me.account_id>>, 0, <<>>)
        /\ callers' = SetCaller(c, IdleCaller)
        /\ UNCHANGED <<interest_rules, transaction_counters>>

\* calculate_interest, lines 122-125: an unknown account returns None, a
\* known one is bound to account
begin_calculate_interest(c, account_id, year, month) ==
    /\ callers.of[c].pc = "idle"
    /\ MayBegin(c)
    /\ IF account_id \notin DOMAIN accounts
         THEN /\ last' = Result("calculate_interest", account_id, <<year, month>>,
                                "None", <<>>, 0, <<>>)
              /\ UNCHANGED <<accounts, interest_rules, transaction_counters, callers>>
       ELSE /\ callers' = SetCaller(c, [IdleCaller EXCEPT
                             !.pc = "account_txns", !.account_id = account_id,
                             !.account = LiveAccount, !.year = year, !.month = month])
            /\ UNCHANGED <<accounts, interest_rules, transaction_counters, last>>

\* lines 128-145: the month's dates, the list account_txns copied from the
\* account the caller holds, and the scan of that list for an Interest
\* transaction of the month.  A call that raises or returns None ends here.
scan_interest(c) ==
    LET me           == callers.of[c]
        account_txns == AccountTxns(AccountOf(me), me.year, me.month)
        return(ret)  == /\ last' = Result("calculate_interest", me.account_id,
                                          <<me.year, me.month>>, ret, <<>>, 0, <<>>)
                        /\ callers' = SetCaller(c, IdleCaller)
                        /\ UNCHANGED <<accounts, interest_rules, transaction_counters>>
    IN  /\ me.pc = "account_txns"
        /\ IF me.month < 1 \/ me.month > 12 \/ me.year < 1 \/ me.year > 9999
             THEN return("raise")
           ELSE IF account_txns = <<>> THEN return("None")
           ELSE IF InterestTxns(account_txns, me.year, me.month) # <<>> THEN return("None")
           ELSE /\ callers' = SetCaller(c, [me EXCEPT !.pc = "breakpoints",
                                                      !.account_txns = account_txns])
                /\ UNCHANGED <<accounts, interest_rules, transaction_counters, last>>

\* lines 147-165: balance_change_dates from account_txns, the list copied at
\* line 133, and from the rules as they are now; total_interest starts at
\* zero.  account_txns is not read after line 151.
find_breakpoints(c) ==
    LET me == callers.of[c]
    IN  /\ me.pc = "breakpoints"
        /\ callers' = SetCaller(c, [me EXCEPT
                         !.pc = "loop", !.account_txns = <<>>,
                         !.balance_change_dates =
                            BalanceChangeDates(me.account_txns, interest_rules,
                                               me.year, me.month),
                         !.i = 1, !.total_interest = DecZero])
        /\ UNCHANGED <<accounts, interest_rules, transaction_counters, last>>

\* lines 167-193, one turn of the loop: the i-th date is skipped when it is
\* end_date; for any other, the balance is read from the account the caller
\* holds and the rule from the rules, both as they are in this turn.  In
\* the turn of the last date, line 175 asks for the day after end_date, and
\* the call raises there when end_date is 9999-12-31.
accrue_period(c) ==
    LET me      == callers.of[c]
        dates   == me.balance_change_dates
        periods == Periods(dates, me.year, me.month)
    IN  /\ me.pc = "loop"
        /\ me.i <= Len(dates)
        /\ IF /\ me.i = Len(dates) /\ dates[me.i] # EndDate(me.year, me.month)
              /\ me.year = 9999 /\ me.month = 12
             THEN /\ last' = Result("calculate_interest", me.account_id,
                                    <<me.year, me.month>>, "raise", <<>>, 0, <<>>)
                  /\ callers' = SetCaller(c, IdleCaller)
                  /\ UNCHANGED <<accounts, interest_rules, transaction_counters>>
           ELSE /\ callers' = SetCaller(c, [me EXCEPT
                                 !.i = me.i + 1,
                                 !.total_interest =
                                    IF me.i <= Len(periods)
                                      THEN AccrualLoop(<<periods[me.i]>>, 1, AccountOf(me),
                                                       interest_rules, me.total_interest)
                                    ELSE me.total_interest])
                /\ UNCHANGED <<accounts, interest_rules, transaction_counters, last>>

\* lines 196-204, after the last turn: the final quantize; a total above
\* zero is appended as Interest to the account the caller holds, and the
\* call returns
post_interest(c) ==
    LET me == callers.of[c]
        r  == PostInterest(accounts, me.account_id, EndDate(me.year, me.month),
                           QuantizeTotal(me.total_interest))
    IN  /\ me.pc = "loop"
        /\ me.i > Len(me.balance_change_dates)
        /\ accounts' = IF me.account.ref = "live" THEN r.accts ELSE accounts
        /\ last' = Result("calculate_interest", me.account_id, <<me.year, me.month>>,
                          r.ret, <<>>, r.val, <<>>)
        /\ callers' = SetCaller(c, IdleCaller)
        /\ UNCHANGED <<interest_rules, transaction_counters>>

(***************************************************************************)
(* Specifications                                                           *)
(***************************************************************************)

\* The general specification: every method of BankSystem, two accounts, and
\* the date texts "20230101" and "2023011", which strptime both reads as
\* 2023-01-01, besides "20230230", which it rejects.
MaxPosts == 2
AccountIds == {"ACC001", "ACC002"}
GoodDateTexts == { <<"2","0","2","3","0","1","0","1">>, <<"2","0","2","3","0","1","1">> }
BadDateText == <<"2","0","2","3","0","2","3","0">>
GoodTypeTexts == {"D", "w"}
GoodAmountText == <<"1","0","0">>
BadAmountText == <<"a","b","c">>
ZeroAmountText == <<"0">>

\* the create_transaction calls: the well-formed ones, and one or two for
\* each way of being rejected
CreateCalls ==
    { <<d, a, t, GoodAmountText>> : d \in GoodDateTexts, a \in AccountIds, t \in GoodTypeTexts }
    \cup { <<BadDateText, "ACC001", "X", BadAmountText>>,
            <<BadDateText, "ACC002", "D", GoodAmountText>>,
            << <<"2","0","2","3","0","1","0","1">>, "ACC001", "X", BadAmountText>>,
            << <<"2","0","2","3","0","1","0","1">>, "ACC002", "D", BadAmountText>>,
            << <<"2","0","2","3","0","1","0","1">>, "ACC002", "w", ZeroAmountText>> }

RuleDateTexts == { <<"2","0","2","3","0","1","0","1">>, <<"2","0","2","3","-","0","1">> }
RuleIds == {"RULE1"}
RateTexts == { <<"5">>, <<"1","0","0">>, <<"a","b","c">> }
Months == { <<2023, 1>> }
MonthTexts == { <<"2","0","2","3","0","1">>, <<"2","0","2","3">> }

Next ==
    \/ \E c \in CreateCalls :
          create_transaction(c[1], c[2], c[3], c[4]) /\ Issued' <= MaxPosts
    \/ \E d \in RuleDateTexts, i \in RuleIds, r \in RateTexts : add_interest_rule(d, i, r)
    \/ \E a \in AccountIds, ym \in Months : calculate_interest(a, ym[1], ym[2])
    \/ \E a \in AccountIds : print_account_transactions(a, TRUE)
    \/ \E a \in AccountIds, ym \in MonthTexts : print_monthly_statement(a, ym)
    \/ print_interest_rules

Spec == Init /\ [][Next]_vars

\* The accrual specification: one account whose postings fall on several
\* days of January 2023, a 5% rule from the first day, and the accrual of
\* that month.  Each posting is [date text, type, amount text].
MaxPostsAccrual == 3
AccrualAccount == "ACC001"
AccrualPosts ==
    { << <<"2","0","2","3","0","1","0","1">>, "D", <<"3","2",".","5","0">> >>,
      << <<"2","0","2","3","0","1","1","5">>, "D", <<"2","0","0">> >>,
      << <<"2","0","2","3","0","1","2","0">>, "W", <<"2","0","0">> >>,
      << <<"2","0","2","3","0","1","2","0">>, "W", <<"2","0","0",".","0","1">> >>,
      << <<"2","0","2","3","0","1","3","1">>, "D", <<"2","0","0">> >>,
      << <<"2","0","2","3","0","1","3","1">>, "W", <<"2","0","0">> >>,
      << <<"2","0","2","3","0","1","0","1">>, "D", <<"1","0","0","0">> >> }
AccrualRule == << <<"2","0","2","3","0","1","0","1">>, "RULE1", <<"5">> >>
AccrualMonth == <<2023, 1>>

NextAccrual ==
    \/ \E c \in AccrualPosts :
          create_transaction(c[1], AccrualAccount, c[2], c[3]) /\ Issued' <= MaxPostsAccrual
    \/ add_interest_rule(AccrualRule[1], AccrualRule[2], AccrualRule[3])
    \/ calculate_interest(AccrualAccount, AccrualMonth[1], AccrualMonth[2])

SpecAccrual == Init /\ [][NextAccrual]_vars

\* The rate specification: one account with a deposit of 1000 on the first
\* day of January 2023 and a withdrawal on the 20th, rules effective before
\* the month, on its first day, on the 15th and on its last day, and the
\* accrual of that month.  Each rule is [date text, rule id, rate text].
MaxPostsRates == 2
RatesPosts ==
    { << <<"2","0","2","3","0","1","0","1">>, "D", <<"1","0","0","0">> >>,
      << <<"2","0","2","3","0","1","2","0">>, "W", <<"5","0","0">> >> }
RatesRules ==
    { << <<"2","0","2","2","1","2","0","1">>, "RULE1", <<"4">> >>,
      << <<"2","0","2","3","0","1","0","1">>, "RULE2", <<"5">> >>,
      << <<"2","0","2","3","0","1","1","5">>, "RULE3", <<"6">> >>,
      << <<"2","0","2","3","0","1","3","1">>, "RULE4", <<"7">> >> }

NextRates ==
    \/ \E c \in RatesPosts :
          create_transaction(c[1], AccrualAccount, c[2], c[3]) /\ Issued' <= MaxPostsRates
    \/ \E c \in RatesRules : add_interest_rule(c[1], c[2], c[3])
    \/ calculate_interest(AccrualAccount, AccrualMonth[1], AccrualMonth[2])

SpecRates == Init /\ [][NextRates]_vars

\* The carry-forward specification: one account, a deposit of 1000 on the
\* first day of January 2023, a withdrawal of 1004.25 and a deposit of 500 on
\* its last day, a deposit in February, the 5% rule, the accrual of January and of February
\* in either order, the two statements, and balance queries for six dates
\* from the day before January to the last day of February.
MaxPostsCarry == 2
CarryPosts ==
    { << <<"2","0","2","3","0","1","0","1">>, "D", <<"1","0","0","0">> >>,
      << <<"2","0","2","3","0","1","3","1">>, "W", <<"1","0","0","4",".","2","5">> >>,
      << <<"2","0","2","3","0","1","3","1">>, "D", <<"5","0","0">> >>,
      << <<"2","0","2","3","0","2","1","0">>, "D", <<"5","0","0">> >> }
CarryMonths == { <<2023, 1>>, <<2023, 2>> }
CarryDates ==
    { Date(2022, 12, 31), Date(2023, 1, 1), Date(2023, 1, 30), Date(2023, 1, 31),
      Date(2023, 2, 10), Date(2023, 2, 28) }
CarrySelectors == { <<"2","0","2","3","0","1">>, <<"2","0","2","3","0","2">> }

NextCarry ==
    \/ \E c \in CarryPosts :
          create_transaction(c[1], AccrualAccount, c[2], c[3]) /\ Issued' <= MaxPostsCarry
    \/ add_interest_rule(AccrualRule[1], AccrualRule[2], AccrualRule[3])
    \/ \E ym \in CarryMonths : calculate_interest(AccrualAccount, ym[1], ym[2])
    \/ \E b \in BOOLEAN : print_account_transactions(AccrualAccount, b)
    \/ \E ym \in CarrySelectors : print_monthly_statement(AccrualAccount, ym)
    \/ \E d \in CarryDates : query_balance_at_date(AccrualAccount, d)

SpecCarry == Init /\ [][NextCarry]_vars

\* The text specification: every method of BankSystem given well-formed and
\* malformed texts.  The month selectors are "202301", "000001" (year 0),
\* "2023" (no month), "2023ab" and "202313"; calculate_interest is also
\* called with the year 0 and with the month 13.  The amount texts are
\* "1000", "100", "1.005", "abc", "0", "-1" and "0.004".  ACC002 gets no
\* posting.
MaxPostsTexts == 2
TextCreateCalls ==
    { << <<"2","0","2","3","0","1","0","1">>, "ACC001", "D", <<"1","0","0","0">> >>,
      << <<"2","0","2","3","0","2","0","1">>, "ACC001", "D", GoodAmountText >>,
      << BadDateText, "ACC001", "D", GoodAmountText >>,
      << <<"2","0","2","3","0","1","0","1">>, "ACC001", "X", GoodAmountText >>,
      << <<"2","0","2","3","0","1","0","1">>, "ACC001", "D", BadAmountText >>,
      << <<"2","0","2","3","0","1","0","1">>, "ACC001", "D", ZeroAmountText >>,
      << <<"2","0","2","3","0","1","0","1">>, "ACC001", "d", <<"-","1">> >>,
      << <<"2","0","2","3","0","1","0","1">>, "ACC001", "D", <<"0",".","0","0","4">> >>,
      << <<"2","0","2","3","0","1","0","1">>, "ACC001", "d", <<"1",".","0","0","5">> >> }
TextMonths == { <<2023, 1>>, <<0, 1>>, <<2023, 13>> }
TextSelectors == { <<"2","0","2","3","0","1">>, <<"0","0","0","0","0","1">>, <<"2","0","2","3">>, <<"2","0","2","3","a","b">>, <<"2","0","2","3","1","3">> }

NextTexts ==
    \/ \E c \in TextCreateCalls :
          create_transaction(c[1], c[2], c[3], c[4]) /\ Issued' <= MaxPostsTexts
    \/ \E r \in RateTexts : add_interest_rule(AccrualRule[1], AccrualRule[2], r)
    \/ add_interest_rule(BadDateText, AccrualRule[2], AccrualRule[3])
    \/ \E a \in AccountIds, ym \in TextMonths : calculate_interest(a, ym[1], ym[2])
    \/ \E a \in AccountIds, b \in BOOLEAN : print_account_transactions(a, b)
    \/ \E a \in AccountIds, ym \in TextSelectors : print_monthly_statement(a, ym)
    \/ print_interest_rules

SpecTexts == Init /\ [][NextTexts]_vars

\* The rule specification: add_interest_rule and print_interest_rules.  The
\* date texts "20230101" and "2023011" both read as 2023-01-01; the rate
\* texts normalise to 5.00, 6.01, 99.99, 100.00, 0.00, 0.01, 0.00, -1.00 and
\* 100.00, and "abc" does not parse.
RuleCalls ==
    { <<d, i, r>> :
        d \in { <<"2","0","2","3","0","1","1","5">>, <<"2","0","2","3","0","1","0","1">>, <<"2","0","2","3","0","1","1">>, BadDateText },
        i \in { "RULE1", "RULE2" },
        r \in { <<"5">>, <<"6",".","0","0","5">>, <<"9","9",".","9","9">>, <<"9","9",".","9","9","5">>, <<"0",".","0","0","4">>, <<"0",".","0","0","5">>,
                <<"0">>, <<"-","1">>, <<"1","0","0">>, BadAmountText } }

NextRules ==
    \/ \E c \in RuleCalls : add_interest_rule(c[1], c[2], c[3])
    \/ print_interest_rules

SpecRules == Init /\ [][NextRules]_vars

\* The rounding specification: deposits and rules whose amount and rate
\* texts carry up to four fractional digits.
MaxPostsRounding == 1
RoundingTexts ==
    { <<"1","0","0",".","4","5","6">>,
      <<"5",".","1","2","5">>,
      <<"0",".","0","0","5">>,
      <<"1",".","0","0","5">>,
      <<"0",".","0","0","4","9">>,
      <<"1","2",".","3","4","5">>,
      <<"0",".","0","1","5">>,
      <<"2",".","5">>,
      <<"7">>,
      <<"1",".","9","9","4">>,
      <<"9","9",".","9","9","4">> }

NextRounding ==
    \/ \E x \in RoundingTexts :
          create_transaction(AccrualRule[1], AccrualAccount, "D", x)
          /\ Issued' <= MaxPostsRounding
    \/ \E x \in RoundingTexts : add_interest_rule(AccrualRule[1], AccrualRule[2], x)

SpecRounding == Init /\ [][NextRounding]_vars

(***************************************************************************)
(* February of a leap year and of a common year: deposits in both years,    *)
(* the 5% rule, and the accrual of the two Februaries.                      *)
(***************************************************************************)
MaxPostsLeap == 2
LeapPosts ==
    { << <<"2","0","2","3","0","2","0","1">>, "D", <<"1","0","0","0">> >>,
      << <<"2","0","2","4","0","2","0","1">>, "D", <<"1","0","0","0">> >>,
      << <<"2","0","2","4","0","2","1","5">>, "D", <<"5","0","0">> >> }
LeapMonths == { <<2023, 2>>, <<2024, 2>> }

NextLeap ==
    \/ \E c \in LeapPosts :
          create_transaction(c[1], AccrualAccount, c[2], c[3]) /\ Issued' <= MaxPostsLeap
    \/ add_interest_rule(AccrualRule[1], AccrualRule[2], AccrualRule[3])
    \/ \E ym \in LeapMonths : calculate_interest(AccrualAccount, ym[1], ym[2])

SpecLeap == Init /\ [][NextLeap]_vars

(***************************************************************************)
(* create_transaction on every combination of a date text, a type and an    *)
(* amount text, several of them wrong in more than one argument.            *)
(***************************************************************************)
MaxPostsOrder == 2
OrderDates == { <<"2","0","2","3","0","1","0","1">>, <<"2","0","2","3","0","1","1","5">>,
                BadDateText }
OrderTypes == { "D", "d", "w", "X" }
OrderAmounts == { GoodAmountText, <<"1","0","0","0">>, BadAmountText, ZeroAmountText }

NextOrder ==
    \E d \in OrderDates, t \in OrderTypes, a \in OrderAmounts :
       create_transaction(d, AccrualAccount, t, a) /\ Issued' <= MaxPostsOrder

SpecOrder == Init /\ [][NextOrder]_vars

(***************************************************************************)
(* Two callers of a new BankSystem, with and without a common lock:         *)
(* deposits and withdrawals of 100 on one date, line by line.               *)
(***************************************************************************)
MaxPostsCallers == 3
CallerPosts == { << AccrualRule[1], "D", GoodAmountText >>, << AccrualRule[1], "w", GoodAmountText >> }

\* the ids issued and the calls on their way to line 84, which issues one
PostsBegun(counters, cs) ==
    SumCounters(counters, DOMAIN counters)
    + Cardinality({c \in CallerIds :
                     cs.of[c].pc \in {"new_account", "get_account", "can_withdraw",
                                      "test", "zero", "increment"}})

InitCallers ==
    /\ accounts = <<>>
    /\ interest_rules = <<>>
    /\ transaction_counters = <<>>
    /\ last = Result("__init__", "", <<>>, "None", <<>>, 0, <<>>)
    /\ \E locking \in BOOLEAN : callers = NoCallers(locking)

NextCallers ==
    \/ \E c \in CallerIds, p \in CallerPosts :
          /\ begin_create_transaction(c, p[1], AccrualAccount, p[2], p[3])
          /\ PostsBegun(transaction_counters', callers') <= MaxPostsCallers
    \/ \E c \in CallerIds : new_account(c)
    \/ \E c \in CallerIds : get_account(c)
    \/ \E c \in CallerIds : check_withdrawal(c)
    \/ \E c \in CallerIds : test_counter(c)
    \/ \E c \in CallerIds : zero_counter(c)
    \/ \E c \in CallerIds : increment_counter(c)
    \/ \E c \in CallerIds : format_txn_id(c)
    \/ \E c \in CallerIds : post_transaction(c)

SpecCallers == InitCallers /\ [][NextCallers]_vars

(***************************************************************************)
(* Two callers of a BankSystem that holds the 5% rule and two deposits of   *)
(* 100, on 2023-01-01 and 2023-01-15, with and without a common lock:       *)
(* deposits and withdrawals of 100 on 2023-01-01 and the accrual of         *)
(* January, line by line.  The account and the counter of the date exist,   *)
(* so lines 72 and 83 are not reached.                                      *)
(***************************************************************************)
\* the ids issued, the two of InitCheckers among them
MaxPostsCheckers == 4
CheckerDeposits == << <<"2","0","2","3","0","1","0","1">>, <<"2","0","2","3","0","1","1","5">> >>

\* the state after add_interest_rule("20230101", "RULE1", "5") and
\* create_transaction(d, "ACC001", "D", "100") for the two dates d
InitCheckers ==
    /\ accounts = [a \in {AccrualAccount} |->
                     [n \in 1..Len(CheckerDeposits) |->
                        Transaction(ParseDate(CheckerDeposits[n]).date, AccrualAccount, "D",
                                    FromCents(Quantize(ParseDecimal(GoodAmountText))),
                                    TxnId(CheckerDeposits[n], 1))]]
    /\ interest_rules = << InterestRule(ParseDate(AccrualRule[1]).date, AccrualRule[2],
                                        FromCents(Quantize(ParseDecimal(AccrualRule[3])))) >>
    /\ transaction_counters = [k \in {CheckerDeposits[n] : n \in 1..Len(CheckerDeposits)} |-> 1]
    /\ last = Result("create_transaction", AccrualAccount, <<>>, "True",
                     <<AccrualAccount>>, 0, <<>>)
    /\ \E locking \in BOOLEAN : callers = NoCallers(locking)

NextCheckers ==
    \/ \E c \in CallerIds, p \in CallerPosts :
          /\ begin_create_transaction(c, p[1], AccrualAccount, p[2], p[3])
          /\ PostsBegun(transaction_counters', callers') <= MaxPostsCheckers
    \/ \E c \in CallerIds : get_account(c)
    \/ \E c \in CallerIds : check_withdrawal(c)
    \/ \E c \in CallerIds : test_counter(c)
    \/ \E c \in CallerIds : increment_counter(c)
    \/ \E c \in CallerIds : format_txn_id(c)
    \/ \E c \in CallerIds : post_transaction(c)
    \/ \E c \in CallerIds :
          begin_calculate_interest(c, AccrualAccount, AccrualMonth[1], AccrualMonth[2])
    \/ \E c \in CallerIds : scan_interest(c)
    \/ \E c \in CallerIds : find_breakpoints(c)
    \/ \E c \in CallerIds : accrue_period(c)
    \/ \E c \in CallerIds : post_interest(c)

SpecCheckers == InitCheckers /\ [][NextCheckers]_vars

(***************************************************************************)
(* Properties                                                               *)
(***************************************************************************)

\* the message of a withdrawal rejected for lack of funds
InsufficientFunds == <<"Insufficient funds for withdrawal.">>

\* the positions <<account id, index>> of all stored transactions
Stored(accts) ==
    UNION { { <<a, i>> : i \in 1..Len(accts[a]) } : a \in DOMAIN accts }

\* the position of the hyphen of a transaction id, the date text before it
\* and the sequence number after it
DashAt(txn_id) == CHOOSE i \in 1..Len(txn_id) : txn_id[i] = "-"
IdDateText(txn_id) == SubSeq(txn_id, 1, DashAt(txn_id) - 1)
IdNumber(txn_id) == DigitsToNat(SubSeq(txn_id, DashAt(txn_id) + 1, Len(txn_id)))

\* the stored transactions that carry an id
WithId(accts) == { p \in Stored(accts) : accts[p[1]][p[2]].txn_id # None }

\* the Interest transactions of an account dated in a month
InterestOfMonth(accts, account_id, year, month) ==
    SelectSeq(TxnsOf(accts, account_id),
              LAMBDA t : t.transaction_type = "I" /\ t.date.year = year /\ t.date.month = month)

\* The signed sum of the transactions dated on or before a date: deposits
\* and interest count positive, withdrawals negative.
RECURSIVE SignedSumUpTo(_, _)
SignedSumUpTo(transactions, date) ==
    IF transactions = <<>> THEN 0
    ELSE LET t == transactions[Len(transactions)]
             rest == SignedSumUpTo(SubSeq(transactions, 1, Len(transactions) - 1), date)
         IN  IF Ordinal(t.date) > Ordinal(date) THEN rest
             ELSE IF t.transaction_type = "W" THEN rest - t.amount
             ELSE rest + t.amount

\* C1: a create_transaction or add_interest_rule call that returns failure
\* leaves the accounts mapping (its set of ids included), every transaction
\* list, the rule list and the counters as they were before the call.
C1_RejectedChangesNothing ==
    [][ (last'.op \in {"create_transaction", "add_interest_rule"} /\ last'.ret = "False")
          => UNCHANGED <<accounts, interest_rules, transaction_counters>> ]_vars

\* C2: a withdrawal with a valid date and a valid positive amount succeeds
\* exactly when the amount is at most the signed sum of the account's
\* transactions dated on or before its date; otherwise it fails with the
\* insufficient-funds message; and after a successful withdrawal the balance
\* at its date is not negative.
C2_WithdrawalBoundary ==
    [][ \A c \in AccrualPosts :
          LET date    == ParseDate(c[1]).date
              amount  == Quantize(ParseDecimal(c[3]))
              balance == SignedSumUpTo(TxnsOf(accounts, AccrualAccount), date)
          IN  ( /\ last'.op = "create_transaction"
                /\ Upper(c[2]) = "W"
                /\ Validate(c[1], c[2], c[3]) = ""
                /\ create_transaction(c[1], AccrualAccount, c[2], c[3]) )
              => /\ (last'.ret = "True") <=> (amount <= balance)
                 /\ (last'.ret # "True") =>
                       (last'.ret = "False" /\ last'.msg = InsufficientFunds)
                 /\ (last'.ret = "True") =>
                       SignedSumUpTo(TxnsOf(accounts', AccrualAccount), date) >= 0 ]_vars

\* a withdrawal of exactly the balance has just succeeded: the account's last
\* transaction is a withdrawal that left nothing at its date
C2_Witness ==
    /\ last.op = "create_transaction" /\ last.ret = "True"
    /\ LET txns == TxnsOf(accounts, last.account)
       IN  /\ Len(txns) >= 2
           /\ txns[Len(txns)].transaction_type = "W"
           /\ SignedSumUpTo(txns, txns[Len(txns)].date) = 0

\* C3: a withdrawal rejected for insufficient funds creates no transaction
\* and consumes no id: the target account has the transactions it had (none,
\* if it was unknown), the counters are unchanged, and so the number the next
\* posting of any date text would get is the same as before the call.
C3_RejectedWithdrawalFrame ==
    [][ ( /\ last'.op = "create_transaction"
          /\ last'.ret = "False"
          /\ last'.msg = InsufficientFunds )
          => /\ TxnsOf(accounts', last'.account) = TxnsOf(accounts, last'.account)
             /\ transaction_counters' = transaction_counters
             /\ \A c \in CreateCalls :
                   Incremented(transaction_counters', c[1])[c[1]]
                     = Incremented(transaction_counters, c[1])[c[1]] ]_vars

\* a withdrawal has just been rejected for insufficient funds on an account
\* that holds transactions, after ids were issued
C3_Witness ==
    /\ last.op = "create_transaction" /\ last.ret = "False" /\ last.msg = InsufficientFunds
    /\ TxnsOf(accounts, last.account) # <<>>
    /\ Issued >= 1

\* C4: the N-th successful posting with date text D, counted over all the
\* accounts in posting order, is stored with the id D, a hyphen and N padded
\* with zeros to at least two digits; the first posting of a date text gets
\* the suffix -01.
C4_IdIssuance ==
    [][ \A c \in CreateCalls :
          ( /\ last'.op = "create_transaction" /\ last'.ret = "True"
            /\ last'.account = c[2]
            /\ create_transaction(c[1], c[2], c[3], c[4]) )
          => LET n    == 1 + Cardinality({ p \in WithId(accounts) :
                              IdDateText(accounts[p[1]][p[2]].txn_id) = c[1] })
                 txns == accounts'[c[2]]
             IN  /\ Len(txns) = Len(TxnsOf(accounts, c[2])) + 1
                 /\ txns[Len(txns)].txn_id = c[1] \o <<"-">> \o ZeroPad(NatToDigits(n), 2)
                 /\ (c[1] \notin DOMAIN transaction_counters) =>
                       txns[Len(txns)].txn_id = c[1] \o <<"-", "0", "1">> ]_vars

\* two accounts hold the first and the second posting of one date text
C4_Witness ==
    \E p, q \in WithId(accounts) :
        /\ p[1] # q[1]
        /\ IdDateText(accounts[p[1]][p[2]].txn_id) = IdDateText(accounts[q[1]][q[2]].txn_id)
        /\ IdNumber(accounts[p[1]][p[2]].txn_id) = 1
        /\ IdNumber(accounts[q[1]][q[2]].txn_id) = 2

\* C5: no two stored transactions that carry an id share it, and among the
\* transactions of one date the sequence numbers strictly increase in the
\* order of assignment: within an account in the order of the list, and no
\* number of that date is used twice across the accounts.
C5_UniqueIncreasingIds ==
    \A p, q \in WithId(accounts) :
        LET t == accounts[p[1]][p[2]]
            u == accounts[q[1]][q[2]]
        IN  p # q =>
              /\ t.txn_id # u.txn_id
              /\ (t.date = u.date) => IdNumber(t.txn_id) # IdNumber(u.txn_id)
              /\ (t.date = u.date /\ p[1] = q[1] /\ p[2] < q[2]) =>
                    IdNumber(t.txn_id) < IdNumber(u.txn_id)

\* C6: every account holds at most one Interest transaction per calendar
\* month, and calculate_interest for a month that already has one returns
\* None and adds nothing.
C6_OneInterestPerMonth ==
    /\ \A p, q \in Stored(accounts) :
          LET t == accounts[p[1]][p[2]]
              u == accounts[q[1]][q[2]]
          IN  ( /\ p[1] = q[1] /\ p[2] # q[2]
                /\ t.transaction_type = "I" /\ u.transaction_type = "I" )
              => ~(t.date.year = u.date.year /\ t.date.month = u.date.month)
    /\ \A a \in AccountIds, ym \in Months :
          InterestOfMonth(accounts, a, ym[1], ym[2]) # <<>>
          => LET r == CalculateInterest(accounts, interest_rules, a, ym[1], ym[2])
             IN  r.ret = "None" /\ r.accts = accounts

\* calculate_interest has just returned None for a month whose Interest
\* transaction the account already holds
C6_Witness ==
    /\ last.op = "calculate_interest" /\ last.ret = "None"
    /\ Len(InterestOfMonth(accounts, last.account, last.period[1], last.period[2])) = 1

\* C7, as amended: of two calculate_interest calls in succession for one
\* account and month, when the first returns an amount above zero the second
\* returns None and changes nothing, and exactly one Interest transaction of
\* that month is on the account afterwards; when the first returns zero it
\* posts nothing, and the second returns zero again and posts nothing.
C7_TwiceAmended ==
    \A a \in AccountIds, ym \in Months :
        LET r1 == CalculateInterest(accounts, interest_rules, a, ym[1], ym[2])
            r2 == CalculateInterest(r1.accts, interest_rules, a, ym[1], ym[2])
        IN  /\ (r1.ret = "Decimal" /\ r1.val > 0)
               => /\ r2.ret = "None"
                  /\ r2.accts = r1.accts
                  /\ Len(InterestOfMonth(r2.accts, a, ym[1], ym[2])) = 1
            /\ (r1.ret = "Decimal" /\ r1.val = 0)
               => /\ r1.accts = accounts
                  /\ r2 = r1
                  /\ InterestOfMonth(r2.accts, a, ym[1], ym[2]) = <<>>

\* calculate_interest has just returned an amount above zero, and a second
\* call for the same account and month now returns None
C7_Witness ==
    /\ last.op = "calculate_interest" /\ last.ret = "Decimal" /\ last.val > 0
    /\ CalculateInterest(accounts, interest_rules, last.account,
                         last.period[1], last.period[2]).ret = "None"

\* C7, as stated: whenever the first of two calculate_interest calls in
\* succession returns a value, the second returns None and exactly one
\* Interest transaction of that month is on the account afterwards.
C7_TwiceAsStated ==
    \A a \in AccountIds, ym \in Months :
        LET r1 == CalculateInterest(accounts, interest_rules, a, ym[1], ym[2])
            r2 == CalculateInterest(r1.accts, interest_rules, a, ym[1], ym[2])
        IN  r1.ret = "Decimal"
            => /\ r2.ret = "None"
               /\ Len(InterestOfMonth(r2.accts, a, ym[1], ym[2])) = 1

\* C8: no stored Interest transaction has an amount of zero or less;
\* calculate_interest posts the rounded total when it is above zero, and
\* otherwise returns zero and leaves the account as it was.
C8_NoZeroInterest ==
    /\ \A p \in Stored(accounts) :
          accounts[p[1]][p[2]].transaction_type = "I" => accounts[p[1]][p[2]].amount > 0
    /\ \A a \in AccountIds, ym \in Months :
          LET r == CalculateInterest(accounts, interest_rules, a, ym[1], ym[2])
              total == TotalInterest(accounts[a], interest_rules, ym[1], ym[2])
          IN  r.ret = "Decimal"
              => IF total > 0
                   THEN /\ r.val = total
                        /\ r.accts = [accounts EXCEPT ![a] =
                              Append(@, [date |-> EndDate(ym[1], ym[2]), account |-> a,
                                         transaction_type |-> "I", amount |-> total,
                                         txn_id |-> None])]
                 ELSE r.val = 0 /\ r.accts = accounts

\* calculate_interest has just returned zero under a rule for an account that
\* holds a deposit and an equal withdrawal of the same day, and nothing else
C8_Witness ==
    /\ last.op = "calculate_interest" /\ last.ret = "Decimal" /\ last.val = 0
    /\ interest_rules # <<>>
    /\ LET txns == TxnsOf(accounts, last.account)
       IN  /\ Len(txns) = 2
           /\ txns[1].transaction_type = "D" /\ txns[2].transaction_type = "W"
           /\ txns[1].date = txns[2].date /\ txns[1].amount = txns[2].amount

\* The exact accrual of a month over the periods the loop visits.  A period
\* contributes balance * rate * num_days / AccrualDen cents, balance being in
\* cents and rate in hundredths of a percent.  The sum is kept as a whole
\* number of cents and a numerator over AccrualDen, and rounded half-up (a
\* tie goes away from zero) once.
AccrualDen == 100 * 100 * DaysPerYear

BalanceTimesRate(transactions, rules, current_date) ==
    LET k == ApplicableRule(rules, current_date)
    IN  IF k = 0 THEN 0
        ELSE SignedSumUpTo(transactions, current_date) * rules[k].rate

RECURSIVE ExactWhole(_, _, _, _)
ExactWhole(periods, i, transactions, rules) ==
    IF i = 0 THEN 0
    ELSE ExactWhole(periods, i - 1, transactions, rules)
         + (BalanceTimesRate(transactions, rules, periods[i].current_date) \div AccrualDen)
           * periods[i].num_days

RECURSIVE ExactPart(_, _, _, _)
ExactPart(periods, i, transactions, rules) ==
    IF i = 0 THEN 0
    ELSE ExactPart(periods, i - 1, transactions, rules)
         + (BalanceTimesRate(transactions, rules, periods[i].current_date) % AccrualDen)
           * periods[i].num_days

HalfUpCents(whole, part) ==
    LET q == whole + (part \div AccrualDen)
        r == part % AccrualDen
    IN  IF 2 * r > AccrualDen THEN q + 1
        ELSE IF 2 * r = AccrualDen THEN (IF q < 0 THEN q ELSE q + 1)
        ELSE q

ExactInterest(transactions, rules, year, month) ==
    LET periods == Periods(BalanceChangeDates(AccountTxns(transactions, year, month),
                                              rules, year, month), year, month)
    IN  HalfUpCents(ExactWhole(periods, Len(periods), transactions, rules),
                    ExactPart(periods, Len(periods), transactions, rules))

\* C9: the monthly interest calculate_interest returns is the sum over the
\* sub-periods of balance * rate / 100 * days / 365, accumulated without
\* rounding and rounded half-up to cents once at the end.
C9_UnroundedSum ==
    LET r == CalculateInterest(accounts, interest_rules, AccrualAccount,
                               AccrualMonth[1], AccrualMonth[2])
        exact == ExactInterest(TxnsOf(accounts, AccrualAccount), interest_rules,
                               AccrualMonth[1], AccrualMonth[2])
    IN  r.ret = "Decimal" => r.val = (IF exact > 0 THEN exact ELSE 0)

\* C10: when the balance B > 0 of the account is the same on every day of the
\* month and the single rule is effective on or before the first day,
\* calculate_interest returns B * rate / 100 * N / 365 rounded half-up to
\* cents, N being the number of days of the month, and appends exactly one
\* Interest transaction of that amount dated the last day of the month.
C10_ConstantBalanceMonth ==
    LET year  == AccrualMonth[1]
        month == AccrualMonth[2]
        txns  == TxnsOf(accounts, AccrualAccount)
        B     == SignedSumUpTo(txns, StartDate(year, month))
        N     == DaysInMonth(year, month)
        r     == CalculateInterest(accounts, interest_rules, AccrualAccount, year, month)
    IN  ( /\ B > 0
          /\ \A d \in 1..N : SignedSumUpTo(txns, Date(year, month, d)) = B
          /\ Len(interest_rules) = 1
          /\ Ordinal(interest_rules[1].date) <= Ordinal(StartDate(year, month))
          /\ InterestOfMonth(accounts, AccrualAccount, year, month) = <<>> )
        => LET product == B * interest_rules[1].rate
               amount  == HalfUpCents((product \div AccrualDen) * N, (product % AccrualDen) * N)
           IN  /\ r.ret = "Decimal"
               /\ r.val = amount
               /\ r.accts = [accounts EXCEPT ![AccrualAccount] =
                     Append(@, [date |-> EndDate(year, month), account |-> AccrualAccount,
                                transaction_type |-> "I", amount |-> amount,
                                txn_id |-> None])]

\* The rule in effect at a date: the index of the rule with the greatest
\* effective date on or before it, 0 when no rule is effective yet.
RuleInEffect(rules, d) ==
    LET ok == {i \in 1..Len(rules) : Ordinal(rules[i].date) <= Ordinal(d)}
    IN  IF ok = {} THEN 0
        ELSE CHOOSE i \in ok : \A j \in ok : Ordinal(rules[j].date) <= Ordinal(rules[i].date)

\* The accrual of the periods from the i-th on, each at the balance of its
\* first day and the rate of the rule in effect on that day; a period that
\* starts before any rule is effective adds nothing.
RECURSIVE RatedLoop(_, _, _, _, _)
RatedLoop(periods, i, transactions, rules, total) ==
    IF i > Len(periods) THEN total
    ELSE LET d == periods[i].current_date
             k == RuleInEffect(rules, d)
         IN  IF k = 0 THEN RatedLoop(periods, i + 1, transactions, rules, total)
             ELSE Let(DecAdd(total, DailyInterest(SignedSumUpTo(transactions, d),
                                                  rules[k].rate, periods[i].num_days)),
                      LAMBDA t : RatedLoop(periods, i + 1, transactions, rules, t))

\* C11: each sub-period of the accrual earns at the rate of the rule with the
\* greatest effective date on or before its first day, rules effective before
\* the month included; a sub-period that starts before any rule is effective
\* earns nothing; and no sub-period runs across the effective date of a rule
\* dated inside the month.  A deposit of 1000 on 2023-01-01 under 5% from
\* that day and 6% from the 15th earns 4.71 in January.
C11_RateOfSubPeriod ==
    LET year    == AccrualMonth[1]
        month   == AccrualMonth[2]
        txns    == TxnsOf(accounts, AccrualAccount)
        periods == Periods(BalanceChangeDates(AccountTxns(txns, year, month),
                                              interest_rules, year, month), year, month)
        rated   == QuantizeTotal(RatedLoop(periods, 1, txns, interest_rules, DecZero))
        later   == SelectSeq(periods, LAMBDA q : RuleInEffect(interest_rules, q.current_date) # 0)
        r       == CalculateInterest(accounts, interest_rules, AccrualAccount, year, month)
    IN  r.ret = "Decimal"
        => /\ r.val = (IF rated > 0 THEN rated ELSE 0)
           /\ rated = QuantizeTotal(RatedLoop(later, 1, txns, interest_rules, DecZero))
           /\ \A k \in 1..Len(interest_rules), i \in 1..Len(periods) :
                 InMonth(interest_rules[k].date, year, month)
                 => ~( /\ Ordinal(periods[i].current_date) < Ordinal(interest_rules[k].date)
                       /\ Ordinal(interest_rules[k].date)
                            < Ordinal(periods[i].current_date) + periods[i].num_days )
           /\ ( /\ Len(txns) = 1 /\ txns[1].date = Date(2023, 1, 1) /\ txns[1].amount = 100000
                /\ \E k \in 1..Len(interest_rules) :
                      /\ interest_rules[k].date = Date(2023, 1, 1)
                      /\ interest_rules[k].rate = 500
                      /\ k < Len(interest_rules)
                      /\ interest_rules[k + 1].date = Date(2023, 1, 15)
                      /\ interest_rules[k + 1].rate = 600
                      /\ k + 1 = Len(interest_rules) )
              => r.val = 471

\* calculate_interest has just posted 4.71 for the deposit of 1000 under a
\* rule effective before the month, 5% from the first day and 6% from the 15th
C11_Witness ==
    /\ last.op = "calculate_interest" /\ last.ret = "Decimal" /\ last.val = 471
    /\ Len(interest_rules) = 3
    /\ Ordinal(interest_rules[1].date) < Ordinal(StartDate(last.period[1], last.period[2]))
    /\ interest_rules[2].rate = 500 /\ interest_rules[3].rate = 600
    /\ Len(TxnsOf(accounts, last.account)) = 2

\* a transaction list without its i-th element
Without(transactions, i) ==
    SubSeq(transactions, 1, i - 1) \o SubSeq(transactions, i + 1, Len(transactions))

\* C12: a posted Interest transaction counts in get_balance_at_date for every
\* date on or after its date (the last day of its month) and for no earlier
\* date, so a withdrawal check at such a date has its amount at its disposal,
\* and the accrual of a later month runs on balances that include it: after
\* January has posted 4.25 on a deposit of 1000 at 5%, February gives 3.85.
C12_InterestCarriesForward ==
    LET txns == TxnsOf(accounts, AccrualAccount)
        feb  == CalculateInterest(accounts, interest_rules, AccrualAccount, 2023, 2)
        periods == Periods(BalanceChangeDates(AccountTxns(txns, 2023, 2),
                                              interest_rules, 2023, 2), 2023, 2)
        rated == QuantizeTotal(RatedLoop(periods, 1, txns, interest_rules, DecZero))
    IN  /\ \A i \in 1..Len(txns) :
              txns[i].transaction_type = "I"
              => /\ txns[i].date = EndDate(txns[i].date.year, txns[i].date.month)
                 /\ \A m \in 1..3, day \in {1, 15, 27, 28} :
                       LET d == Date(2023, m, day)
                           counted == IF Ordinal(d) >= Ordinal(txns[i].date)
                                        THEN txns[i].amount ELSE 0
                       IN  /\ get_balance_at_date(txns, d)
                                = get_balance_at_date(Without(txns, i), d) + counted
                           /\ \A c \in CarryPosts :
                                 can_withdraw(txns, Quantize(ParseDecimal(c[3])), d)
                                 <=> can_withdraw(Without(txns, i),
                                                  Quantize(ParseDecimal(c[3])) - counted, d)
                 /\ get_balance_at_date(txns, txns[i].date)
                       = get_balance_at_date(Without(txns, i), txns[i].date) + txns[i].amount
        /\ (InterestOfMonth(accounts, AccrualAccount, 2023, 1) # <<>> /\ feb.ret = "Decimal")
              => feb.val = (IF rated > 0 THEN rated ELSE 0)
        /\ ( /\ Len(txns) = 2 /\ Len(interest_rules) = 1
             /\ txns[1].transaction_type = "D" /\ txns[1].amount = 100000
             /\ txns[2].transaction_type = "I" /\ txns[2].amount = 425 )
              => feb.ret = "Decimal" /\ feb.val = 385

\* calculate_interest has just posted 3.85 for February on the deposit of
\* 1000 and the 4.25 that January had posted before
C12_Witness ==
    /\ last.op = "calculate_interest" /\ last.period = <<2023, 2>>
    /\ last.ret = "Decimal" /\ last.val = 385
    /\ LET txns == TxnsOf(accounts, last.account)
       IN  /\ Len(txns) = 3
           /\ txns[2].transaction_type = "I" /\ txns[2].date = Date(2023, 1, 31)
           /\ txns[2].amount = 425
           /\ txns[3].transaction_type = "I" /\ txns[3].date = Date(2023, 2, 28)

\* C13: calculate_interest returns None exactly when the account id is
\* unknown, or the account has no transaction dated on or before the last day
\* of the month, or it holds an Interest transaction dated in that year and
\* month, and then it changes nothing; in every other case it returns a
\* Decimal that is not negative.
C13_ReturnCases ==
    \A a \in AccountIds, ym \in TextMonths :
        LET r == CalculateInterest(accounts, interest_rules, a, ym[1], ym[2])
        IN  /\ r.ret \in {"None", "Decimal"}
            /\ (r.ret = "None") => (r.accts = accounts)
            /\ (r.ret = "Decimal") => (r.val >= 0)
            /\ (r.ret = "None")
                 <=> \/ a \notin DOMAIN accounts
                     \/ \A i \in 1..Len(accounts[a]) :
                           Ordinal(accounts[a][i].date) > Ordinal(EndDate(ym[1], ym[2]))
                     \/ InterestOfMonth(accounts, a, ym[1], ym[2]) # <<>>

\* C14: after every add_interest_rule call the rule list is strictly
\* ascending by effective date, so it holds at most one rule per date; a
\* successful add leaves exactly one rule of its date, with its rule id and
\* its normalised rate, and the rules of the other dates as they were; the
\* list keeps its length when the date already had a rule and grows by one
\* otherwise.
C14_RuleListOrder ==
    [][ /\ \A k \in 1..(Len(interest_rules') - 1) :
              Ordinal(interest_rules'[k].date) < Ordinal(interest_rules'[k + 1].date)
        /\ \A c \in RuleCalls :
              ( /\ last'.op = "add_interest_rule" /\ last'.ret = "True"
                /\ add_interest_rule(c[1], c[2], c[3]) )
              => LET date == ParseDate(c[1]).date
                     had  == \E k \in 1..Len(interest_rules) : interest_rules[k].date = date
                 IN  /\ SelectSeq(interest_rules', LAMBDA rule : rule.date = date)
                          = << [date |-> date, rule_id |-> c[2],
                                rate |-> Quantize(ParseDecimal(c[3]))] >>
                     /\ SelectSeq(interest_rules', LAMBDA rule : rule.date # date)
                          = SelectSeq(interest_rules, LAMBDA rule : rule.date # date)
                     /\ Len(interest_rules')
                          = (IF had THEN Len(interest_rules) ELSE Len(interest_rules) + 1) ]_vars

\* a rule of 2023-01-01 has just been added in front of the rule of
\* 2023-01-15 that the list held already, under another id and rate
C14_Witness ==
    /\ last.op = "add_interest_rule" /\ last.ret = "True"
    /\ Len(interest_rules) = 2
    /\ interest_rules[1] = [date |-> Date(2023, 1, 1), rule_id |-> "RULE2", rate |-> 601]
    /\ interest_rules[2] = [date |-> Date(2023, 1, 15), rule_id |-> "RULE1", rate |-> 500]

\* C15: every stored rule has a rate above 0 and below 100; add_interest_rule
\* with a rate text that is not a number, or whose value rounded half-up to
\* two decimals is 0 or less or 100 or more, returns failure and leaves the
\* rule list as it was.  Of the rate texts of the rule specification, "abc"
\* is no number, "0", "-1" and "0.004" come to at most 0.00, and "100" and
\* "99.995" come to 100.00.
C15_RateRange ==
    [][ /\ \A k \in 1..Len(interest_rules') :
              0 < interest_rules'[k].rate /\ interest_rules'[k].rate < 100 * 100
        /\ \A c \in RuleCalls :
              ( /\ last'.op = "add_interest_rule"
                /\ c[3] \in { BadAmountText, <<"0">>, <<"-","1">>, <<"0",".","0","0","4">>,
                              <<"1","0","0">>, <<"9","9",".","9","9","5">> }
                /\ add_interest_rule(c[1], c[2], c[3]) )
              => /\ last'.ret = "False"
                 /\ interest_rules' = interest_rules ]_vars

\* add_interest_rule has just refused a rate for being out of range while the
\* list holds the rates 0.01 and 99.99
C15_Witness ==
    /\ last.op = "add_interest_rule" /\ last.ret = "False"
    /\ last.msg = <<"Interest rate must be greater than 0 and less than 100.">>
    /\ Len(interest_rules) = 2
    /\ {interest_rules[1].rate, interest_rules[2].rate} = {1, 9999}

\* C16: every stored Deposit or Withdrawal has an amount above zero held to
\* exactly two fractional digits; create_transaction with a valid date and
\* type fails with "Invalid amount format." for an amount text that is no
\* number and with "Amount must be greater than zero." for an amount of zero
\* or less, and stores nothing in either case.
C16_StoredAmounts ==
    [][ /\ \A p \in Stored(accounts') :
              LET t == accounts'[p[1]][p[2]]
              IN  t.transaction_type \in {"D", "W"}
                  => /\ t.amount > 0
                     /\ Len(FromCents(t.amount).frac) = 2
                     /\ Quantize(FromCents(t.amount)) = t.amount
        /\ \A c \in TextCreateCalls :
              ( /\ last'.op = "create_transaction"
                /\ ParseDate(c[1]).ok /\ c[3] \in {"D", "d", "W", "w"}
                /\ create_transaction(c[1], c[2], c[3], c[4]) )
              => /\ (c[4] = BadAmountText)
                    => /\ last'.ret = "False"
                       /\ last'.msg = <<"Invalid amount format.">>
                       /\ UNCHANGED <<accounts, interest_rules, transaction_counters>>
                 /\ (c[4] \in {ZeroAmountText, <<"-","1">>})
                    => /\ last'.ret = "False"
                       /\ last'.msg = <<"Amount must be greater than zero.">>
                       /\ UNCHANGED <<accounts, interest_rules, transaction_counters>>
                 /\ (c[4] = <<"1",".","0","0","5">>)
                    => /\ last'.ret = "True"
                       /\ accounts'[c[2]][Len(accounts'[c[2]])].amount = 101 ]_vars

\* an amount of zero or less has just been refused on an account that holds
\* the deposit of "1.005" as 1.01
C16_Witness ==
    /\ last.op = "create_transaction" /\ last.ret = "False"
    /\ last.msg = <<"Amount must be greater than zero.">>
    /\ LET txns == TxnsOf(accounts, last.account)
       IN  Len(txns) = 1 /\ txns[1].transaction_type = "D" /\ txns[1].amount = 101

\* C17: create_transaction, add_interest_rule, print_account_transactions,
\* print_monthly_statement and print_interest_rules return a result tuple or
\* a text for every text they are given and never raise; on an existing
\* account print_monthly_statement returns a text for every month selector,
\* a year part of 0000 and a missing, non-numeric or out-of-range month part
\* included.
C17_NeverRaises ==
    /\ last.op \in {"create_transaction", "add_interest_rule"}
          => last.ret \in {"True", "False"}
    /\ last.op \in {"print_account_transactions", "print_monthly_statement",
                    "print_interest_rules"}
          => last.ret = "str"
    /\ (last.op = "print_monthly_statement" /\ last.account \in DOMAIN accounts
        /\ last.period \in TextSelectors)
          => last.ret = "str"

\* C18: print_monthly_statement runs the accrual of the account and month
\* first.  When the account holds no Interest transaction of the month and
\* the accrual total is above zero, the call leaves exactly one Interest
\* transaction on the account, dated the last day of the month, and the
\* statement it returns has its row; a second call returns the same text and
\* changes nothing.
C18_StatementAccrues ==
    \A a \in AccountIds, ym \in TextSelectors :
        LET year  == ParseInt(Slice(ym, 1, 4)).val
            month == ParseInt(Slice(ym, 5, Len(ym))).val
            r     == CalculateInterest(accounts, interest_rules, a, year, month)
            s1    == MonthlyStatement(accounts, interest_rules, a, ym)
            s2    == MonthlyStatement(s1.accts, interest_rules, a, ym)
            posted == InterestOfMonth(s1.accts, a, year, month)
        IN  /\ ( /\ InterestOfMonth(accounts, a, year, month) = <<>>
                 /\ r.ret = "Decimal" /\ r.val > 0 )
               => /\ Len(posted) = 1
                  /\ posted[1].date = EndDate(year, month)
                  /\ posted[1].amount = r.val
                  /\ s1.accts = [accounts EXCEPT ![a] = Append(@, posted[1])]
                  /\ \E k \in 1..Len(s1.last.out) :
                        /\ s1.last.out[k].type = "I"
                        /\ s1.last.out[k].date_str = Strftime(EndDate(year, month))
                        /\ s1.last.out[k].amount = r.val
            /\ s1.last.ret = "str"
               => /\ s2.last = s1.last
                  /\ s2.accts = s1.accts

\* print_monthly_statement has just returned a statement whose last row is
\* the Interest transaction of the month, which the account now holds after
\* its deposit
C18_Witness ==
    /\ last.op = "print_monthly_statement" /\ last.ret = "str"
    /\ Len(last.out) = 2
    /\ last.out[2].type = "I" /\ last.out[2].amount > 0
    /\ LET txns == TxnsOf(accounts, last.account)
       IN  /\ Len(txns) = 2
           /\ txns[2].transaction_type = "I"
           /\ txns[2].amount = last.out[2].amount
           /\ MonthlyStatement(accounts, interest_rules, last.account, last.period).last = last

\* C19: in a monthly statement the running balance starts from the balance at
\* the day before the first day of the month, each row adds its signed
\* amount, and the balance of the last row is the balance at the last day of
\* the month; in the transaction list with balances the balance of the last
\* row is the signed sum of all the account's transactions, deposits and
\* interest positive, withdrawals negative.
C19_RunningBalance ==
    LET txns   == TxnsOf(accounts, last.account)
        out    == last.out
        amt(k) == IF out[k].type = "W" THEN 0 - out[k].amount ELSE out[k].amount
    IN  /\ (last.op = "print_monthly_statement" /\ last.ret = "str" /\ out # <<>>)
           => LET year  == ParseInt(Slice(last.period, 1, 4)).val
                  month == ParseInt(Slice(last.period, 5, Len(last.period))).val
              IN  /\ out[1].balance
                       = SignedSumUpTo(txns, DayBefore(StartDate(year, month))) + amt(1)
                  /\ \A k \in 2..Len(out) : out[k].balance = out[k - 1].balance + amt(k)
                  /\ out[Len(out)].balance = get_balance_at_date(txns, EndDate(year, month))
                  /\ out[Len(out)].balance = SignedSumUpTo(txns, EndDate(year, month))
        /\ ( /\ last.op = "print_account_transactions" /\ out # <<>>
             /\ out[1].has_balance )
           => /\ Len(out) = Len(txns)
              /\ out[Len(out)].balance = SignedSumUpTo(txns, Date(9999, 12, 31))

\* the statement of February has just been returned with a deposit row and
\* the Interest row of the month, the running balance having started from
\* the 1004.25 of January
C19_Witness ==
    /\ last.op = "print_monthly_statement" /\ last.ret = "str"
    /\ last.period = <<"2","0","2","3","0","2">>
    /\ Len(last.out) = 2
    /\ last.out[1].type = "D" /\ last.out[1].balance = 100425 + 50000
    /\ last.out[2].type = "I" /\ last.out[2].balance = 150425 + last.out[2].amount

\* C20: for every transaction list and all dates d1 < d2, the balance at d2
\* less the balance at d1 is the signed sum of the transactions dated after
\* d1 and on or before d2 (deposits and interest positive, withdrawals
\* negative); the balance is the same when two neighbouring transactions
\* change places, so it does not depend on the order of insertion; and a
\* balance query returns that balance and changes no state.
C20_BalanceDifference ==
    /\ [] LET txns == TxnsOf(accounts, AccrualAccount)
              swapped(i) == [k \in 1..Len(txns) |->
                                IF k = i THEN txns[i + 1]
                                ELSE IF k = i + 1 THEN txns[i] ELSE txns[k]]
          IN  /\ \A d1, d2 \in CarryDates :
                    Ordinal(d1) < Ordinal(d2)
                    => get_balance_at_date(txns, d2) - get_balance_at_date(txns, d1)
                         = SignedSumUpTo(SelectSeq(txns,
                                                   LAMBDA t : Ordinal(t.date) > Ordinal(d1)), d2)
              /\ \A i \in 1..(Len(txns) - 1), d \in CarryDates :
                    get_balance_at_date(swapped(i), d) = get_balance_at_date(txns, d)
    /\ [][ last'.op = "get_balance_at_date"
             => /\ UNCHANGED <<accounts, interest_rules, transaction_counters>>
                /\ last'.val = SignedSumUpTo(TxnsOf(accounts, last'.account),
                                             Date(last'.period[1], last'.period[2],
                                                  last'.period[3])) ]_vars

\* the balance at 2023-01-31 has just been asked of an account that holds the
\* deposit of 1000, the interest of January and the withdrawal of both on
\* that day, and is zero, while the balance of the day before is 1000
C20_Witness ==
    /\ last.op = "get_balance_at_date" /\ last.period = <<2023, 1, 31>> /\ last.val = 0
    /\ LET txns == TxnsOf(accounts, last.account)
       IN  /\ Len(txns) = 3
           /\ txns[2].transaction_type = "I" /\ txns[3].transaction_type = "W"
           /\ get_balance_at_date(txns, Date(2023, 1, 30)) = 100000

\* floor(x * 100 + 1/2) for the non-negative number x that a text of digits
\* with at most four fractional digits writes: x is n / 10^k, n being the
\* digits read without the point and k the number of fractional digits.
HalfUpHundredths(s) ==
    LET d == ParseDecimal(s)
        k == Len(d.frac)
        n == DigitsToNat(d.int \o d.frac)
        p == IF k = 0 THEN 1 ELSE Pow10[k]
    IN  (200 * n + p) \div (2 * p)

\* C21: amounts and rates are rounded half-up to two fractional digits on
\* every construction: for a non-negative input x the stored amount of a
\* Transaction and the stored rate of an InterestRule are
\* floor(x * 100 + 1/2) / 100, so 100.456 becomes 100.46, 5.125 becomes 5.13
\* and 0.005 becomes 0.01.
C21_HalfUpNormalisation ==
    /\ [] \A x \in RoundingTexts :
            /\ Transaction(Date(2023, 1, 1), AccrualAccount, "D", ParseDecimal(x), None).amount
                  = HalfUpHundredths(x)
            /\ InterestRule(Date(2023, 1, 1), AccrualRule[2], ParseDecimal(x)).rate
                  = HalfUpHundredths(x)
    /\ [][ \A x \in RoundingTexts :
             /\ ( /\ last'.op = "create_transaction" /\ last'.ret = "True"
                  /\ create_transaction(AccrualRule[1], AccrualAccount, "D", x) )
                => accounts'[AccrualAccount][Len(accounts'[AccrualAccount])].amount
                      = HalfUpHundredths(x)
             /\ ( /\ last'.op = "add_interest_rule" /\ last'.ret = "True"
                  /\ add_interest_rule(AccrualRule[1], AccrualRule[2], x) )
                => interest_rules'[1].rate = HalfUpHundredths(x) ]_vars

\* the account holds the deposit of "100.456" as 100.46 and the rule list
\* the rate "0.005" as 0.01
C21_Witness ==
    /\ interest_rules # <<>> /\ interest_rules[1].rate = 1
    /\ LET txns == TxnsOf(accounts, AccrualAccount)
       IN  Len(txns) = 1 /\ txns[1].amount = 10046

\* the number of days the periods from the i-th on count together
RECURSIVE DaysCounted(_, _)
DaysCounted(periods, i) ==
    IF i > Len(periods) THEN 0
    ELSE periods[i].num_days + DaysCounted(periods, i + 1)

\* C22: the sub-periods calculate_interest uses partition the calendar month:
\* they follow one another without overlap, each lies inside the month, and
\* their day counts add up to the number of days of the month, the last day
\* included when a transaction or a rule change falls on it.
C22_PeriodsPartitionMonth ==
    LET year    == AccrualMonth[1]
        month   == AccrualMonth[2]
        txns    == TxnsOf(accounts, AccrualAccount)
        periods == Periods(BalanceChangeDates(AccountTxns(txns, year, month),
                                              interest_rules, year, month), year, month)
        r       == CalculateInterest(accounts, interest_rules, AccrualAccount, year, month)
    IN  r.ret = "Decimal"
        => /\ \A i \in 1..Len(periods) :
                 /\ InMonth(periods[i].current_date, year, month)
                 /\ periods[i].num_days >= 1
                 /\ Ordinal(periods[i].current_date) + periods[i].num_days - 1
                       <= Ordinal(EndDate(year, month))
                 /\ i < Len(periods)
                    => Ordinal(periods[i].current_date) + periods[i].num_days
                          = Ordinal(periods[i + 1].current_date)
           /\ DaysCounted(periods, 1) = DaysInMonth(year, month)

\* C23: after any sequence of operations the balance of the account at the
\* end of every day is non-negative, postings dated earlier than stored
\* transactions included.
C23_BalanceNeverNegative ==
    \A day \in 1..DaysInMonth(AccrualMonth[1], AccrualMonth[2]) :
       get_balance_at_date(TxnsOf(accounts, AccrualAccount),
                           Date(AccrualMonth[1], AccrualMonth[2], day)) >= 0

\* C24: in every reachable state each stored Interest transaction equals what
\* the accrual of its month gives over the account's other transactions as
\* they are now and the rule list as it is now, so that no later posting or
\* rule leaves a stored Interest amount that disagrees with the ledger.
C24_StoredInterestAgrees ==
    LET txns == TxnsOf(accounts, AccrualAccount)
    IN  \A i \in 1..Len(txns) :
           txns[i].transaction_type = "I"
           => txns[i].amount = TotalInterest(Without(txns, i), interest_rules,
                                             txns[i].date.year, txns[i].date.month)

\* C25: when several breakpoints fall on one date d of the month (several
\* transactions of that day, or a transaction on the effective date of a
\* rule), exactly one sub-period starts at d, it runs on the balance at the
\* end of d and on the rule in effect on d, and no day is counted twice.
C25_CoincidingBreakpoints ==
    LET year    == AccrualMonth[1]
        month   == AccrualMonth[2]
        txns    == TxnsOf(accounts, AccrualAccount)
        periods == Periods(BalanceChangeDates(AccountTxns(txns, year, month),
                                              interest_rules, year, month), year, month)
        r       == CalculateInterest(accounts, interest_rules, AccrualAccount, year, month)
        sources(d) == Cardinality({i \in 1..Len(txns) : txns[i].date = d})
                      + Cardinality({k \in 1..Len(interest_rules) : interest_rules[k].date = d})
    IN  r.ret = "Decimal"
        => /\ \A day \in 1..DaysInMonth(year, month) :
                 LET d == Date(year, month, day)
                 IN  sources(d) >= 2
                     => /\ Cardinality({i \in 1..Len(periods) : periods[i].current_date = d}) = 1
                        /\ get_balance_at_date(txns, d) = SignedSumUpTo(txns, d)
                        /\ ApplicableRule(interest_rules, d) = RuleInEffect(interest_rules, d)
           /\ \A i \in 1..Len(periods) :
                 i < Len(periods)
                 => Ordinal(periods[i].current_date) + periods[i].num_days
                       <= Ordinal(periods[i + 1].current_date)

\* C26: the divisor is 365 in every year and the month has its calendar
\* length: the sub-periods of February 2024 count 29 days and end on the 29th,
\* those of February 2023 count 28, the interest of both is the day-weighted
\* sum divided by 365 and rounded half-up, and it is posted on the month's
\* last day.  1000 deposited on 2024-02-01 at 5% earn 3.97 in February 2024
\* (3.96 were the divisor 366), and 5.00 with 500 more from the 15th.
C26_LeapFebruary ==
    /\ [] \A ym \in LeapMonths :
            LET txns    == TxnsOf(accounts, AccrualAccount)
                periods == Periods(BalanceChangeDates(AccountTxns(txns, ym[1], ym[2]),
                                                      interest_rules, ym[1], ym[2]),
                                   ym[1], ym[2])
                exact   == ExactInterest(txns, interest_rules, ym[1], ym[2])
                r       == CalculateInterest(accounts, interest_rules, AccrualAccount,
                                             ym[1], ym[2])
                length  == IF ym = <<2024, 2>> THEN 29 ELSE 28
                feb     == SelectSeq(txns, LAMBDA t : t.date.year = 2024)
            IN  r.ret = "Decimal"
                => /\ DaysCounted(periods, 1) = length
                   /\ periods[Len(periods)].current_date.day
                         + periods[Len(periods)].num_days - 1 = length
                   /\ r.val = (IF exact > 0 THEN exact ELSE 0)
                   /\ ( /\ ym = <<2024, 2>> /\ Len(txns) = Len(feb) /\ interest_rules # <<>>
                        /\ \A i \in 1..Len(txns) : txns[i].transaction_type = "D" )
                      => r.val = ( IF Len(txns) = 1 /\ txns[1].date.day = 1 THEN 397
                                   ELSE IF Len(txns) = 2 /\ txns[1].date.day # txns[2].date.day
                                     THEN 500
                                   ELSE r.val )
    /\ [][ \A ym \in LeapMonths :
              ( /\ last'.op = "calculate_interest" /\ last'.ret = "Decimal" /\ last'.val > 0
                /\ calculate_interest(AccrualAccount, ym[1], ym[2]) )
              => LET txns == accounts'[AccrualAccount]
                 IN  /\ txns[Len(txns)].transaction_type = "I"
                     /\ txns[Len(txns)].date
                          = Date(ym[1], 2, IF ym = <<2024, 2>> THEN 29 ELSE 28) ]_vars

\* calculate_interest has just posted 5.00, dated 2024-02-29, on 1000 from
\* the 1st of February 2024 and 500 more from the 15th
C26_Witness ==
    /\ last.op = "calculate_interest" /\ last.ret = "Decimal" /\ last.val = 500
    /\ last.period = <<2024, 2>>
    /\ LET txns == TxnsOf(accounts, AccrualAccount)
       IN  /\ Len(txns) = 3
           /\ txns[3].transaction_type = "I" /\ txns[3].date = Date(2024, 2, 29)
           /\ txns[3].amount = 500

\* C27: a date text is accepted only when it is eight digits YYYYMMDD naming
\* a calendar date, so every key of the counters is such a text, no two keys
\* denote the same date, and the id of every stored transaction starts with
\* the eight digits of its date.
C27_EightDigitDateTexts ==
    /\ \A k \in DOMAIN transaction_counters :
          Len(k) = 8 /\ AllDigits(k) /\ ParseDate(k).ok
    /\ \A k1, k2 \in DOMAIN transaction_counters :
          ParseDate(k1).date = ParseDate(k2).date => k1 = k2
    /\ \A p \in WithId(accounts) :
          IdDateText(accounts[p[1]][p[2]].txn_id) = Strftime(accounts[p[1]][p[2]].date)

\* C28: create_transaction reports the first failure only, in the order
\* invalid date, invalid type (anything but D or W in either case), invalid
\* amount text, amount not above zero, insufficient funds; and a type given
\* in lower case is accepted and stored in upper case.
C28_ValidationOrder ==
    [][ \A d \in OrderDates, t \in OrderTypes, a \in OrderAmounts :
           create_transaction(d, AccrualAccount, t, a)
           => LET cents == IF a = GoodAmountText THEN 10000 ELSE 100000
                  day   == IF d[7] = "0" THEN Date(2023, 1, 1) ELSE Date(2023, 1, 15)
                  funds == SignedSumUpTo(TxnsOf(accounts, AccrualAccount), day)
                  refused(m) == /\ last'.ret = "False" /\ last'.msg = <<m>>
                                /\ UNCHANGED <<interest_rules, transaction_counters>>
                                /\ TxnsOf(accounts', AccrualAccount)
                                     = TxnsOf(accounts, AccrualAccount)
              IN  IF d = BadDateText
                    THEN refused("Invalid date format. Please use YYYYMMDD format.")
                  ELSE IF t = "X"
                    THEN refused("Invalid transaction type. Use D for deposit or W for withdrawal.")
                  ELSE IF a = BadAmountText
                    THEN refused("Invalid amount format.")
                  ELSE IF a = ZeroAmountText
                    THEN refused("Amount must be greater than zero.")
                  ELSE IF t = "w" /\ funds < cents
                    THEN refused("Insufficient funds for withdrawal.")
                  ELSE LET txns == accounts'[AccrualAccount]
                       IN  /\ last'.ret = "True"
                           /\ Len(txns) = Len(TxnsOf(accounts, AccrualAccount)) + 1
                           /\ txns[Len(txns)].transaction_type
                                = (IF t = "w" THEN "W" ELSE "D")
                           /\ txns[Len(txns)].date = day
                           /\ txns[Len(txns)].amount = cents ]_vars

\* a withdrawal has just been refused for insufficient funds on an account
\* that holds a deposit and a withdrawal given as "w" and stored as W
C28_Witness ==
    /\ last.op = "create_transaction" /\ last.ret = "False"
    /\ last.msg = <<"Insufficient funds for withdrawal.">>
    /\ LET txns == TxnsOf(accounts, AccrualAccount)
       IN  /\ Len(txns) = 2
           /\ txns[1].transaction_type = "D" /\ txns[2].transaction_type = "W"

\* C29: print_account_transactions and print_interest_rules change nothing;
\* asked for an unknown account, print_account_transactions and
\* print_monthly_statement answer "does not exist" and do not create it;
\* print_monthly_statement changes at most the list of the account asked
\* for, by appending at most one Interest transaction dated the last day of
\* the requested month, and leaves the rules, the counters and every other
\* account as they were.
C29_PrintFrames ==
    [][ /\ last'.op \in {"print_account_transactions", "print_interest_rules"}
           => UNCHANGED <<accounts, interest_rules, transaction_counters>>
        /\ ( /\ last'.op \in {"print_account_transactions", "print_monthly_statement"}
             /\ last'.account \notin DOMAIN accounts )
           => /\ last'.ret = "str"
              /\ last'.msg = <<"Account ", last'.account, " does not exist.">>
              /\ accounts' = accounts
        /\ last'.op = "print_monthly_statement"
           => /\ UNCHANGED <<interest_rules, transaction_counters>>
              /\ DOMAIN accounts' = DOMAIN accounts
              /\ \A a \in DOMAIN accounts :
                    LET old == accounts[a]
                        new == accounts'[a]
                    IN  \/ new = old
                        \/ /\ a = last'.account
                           /\ last'.period = <<"2","0","2","3","0","1">>
                           /\ Len(new) = Len(old) + 1
                           /\ SubSeq(new, 1, Len(old)) = old
                           /\ new[Len(new)].transaction_type = "I"
                           /\ new[Len(new)].date = Date(2023, 1, 31) ]_vars

\* print_monthly_statement has just appended January's Interest to one
\* account while the other account holds a transaction too
C29_Witness ==
    /\ last.op = "print_monthly_statement" /\ last.ret = "str"
    /\ DOMAIN accounts = AccountIds
    /\ \A a \in AccountIds : Len(accounts[a]) >= 1
    /\ LET txns == accounts[last.account]
       IN  txns[Len(txns)].transaction_type = "I"

\* C30: print_account_transactions and print_monthly_statement list their
\* rows by date, not decreasing; rows of one date come in the order of their
\* sequence numbers; and the Interest row of a date comes after the deposits
\* and withdrawals of that date.
C30_RowOrder ==
    LET out == last.out
    IN  ( /\ last.op \in {"print_account_transactions", "print_monthly_statement"}
          /\ last.ret = "str" )
        => \A i, j \in 1..Len(out) :
              i < j
              => /\ DigitsToNat(out[i].date_str) <= DigitsToNat(out[j].date_str)
                 /\ out[i].date_str = out[j].date_str
                    => /\ (out[i].txn_id # <<>> /\ out[j].txn_id # <<>>)
                          => IdNumber(out[i].txn_id) < IdNumber(out[j].txn_id)
                       /\ ~(out[i].type = "I" /\ out[j].type \in {"D", "W"})

\* C31: under serialized calls the counter of every date text equals the
\* number of stored deposits and withdrawals, over all accounts, whose id
\* starts with that text, and every id's text has a counter; Interest
\* transactions carry no id and deposits and withdrawals carry one; no
\* counter ever decreases or disappears; and calculate_interest and
\* print_monthly_statement change no counter.
C31_CountersCountIds ==
    /\ [] ( /\ \A k \in DOMAIN transaction_counters :
                  transaction_counters[k]
                    = Cardinality({ p \in WithId(accounts) :
                                      /\ IdDateText(accounts[p[1]][p[2]].txn_id) = k
                                      /\ accounts[p[1]][p[2]].transaction_type \in {"D", "W"} })
            /\ \A p \in Stored(accounts) :
                  LET t == accounts[p[1]][p[2]]
                  IN  IF t.transaction_type = "I" THEN t.txn_id = None
                      ELSE /\ t.txn_id # None
                           /\ IdDateText(t.txn_id) \in DOMAIN transaction_counters )
    /\ [][ /\ \A k \in DOMAIN transaction_counters :
                 /\ k \in DOMAIN transaction_counters'
                 /\ transaction_counters'[k] >= transaction_counters[k]
           /\ last'.op \in {"calculate_interest", "print_monthly_statement"}
              => transaction_counters' = transaction_counters ]_vars

\* calculate_interest has just posted an Interest transaction without id
\* while two ids of one date text are stored on two accounts and its counter
\* is 2
C31_Witness ==
    /\ last.op = "calculate_interest" /\ last.ret = "Decimal" /\ last.val > 0
    /\ DOMAIN accounts = AccountIds
    /\ \E k \in DOMAIN transaction_counters :
          /\ transaction_counters[k] = 2
          /\ \A a \in AccountIds : Len(accounts[a]) >= 1 /\ IdDateText(accounts[a][1].txn_id) = k
    /\ LET txns == accounts[last.account]
       IN  txns[Len(txns)].transaction_type = "I" /\ txns[Len(txns)].txn_id = None

\* C32: the ledger is append-only.  In every step each account stays in the
\* mapping and its list keeps the transactions it had, in their places and
\* unchanged; every transaction stored under account id a has account field
\* a and type D, W or I; and a successful create_transaction appends exactly
\* one transaction to the account it names and leaves every other account
\* as it was.
C32_AppendOnly ==
    /\ [] \A p \in Stored(accounts) :
             /\ accounts[p[1]][p[2]].account = p[1]
             /\ accounts[p[1]][p[2]].transaction_type \in {"D", "W", "I"}
    /\ [][ /\ \A a \in DOMAIN accounts :
                 /\ a \in DOMAIN accounts'
                 /\ Len(accounts'[a]) >= Len(accounts[a])
                 /\ SubSeq(accounts'[a], 1, Len(accounts[a])) = accounts[a]
           /\ (last'.op = "create_transaction" /\ last'.ret = "True")
              => /\ DOMAIN accounts' = DOMAIN accounts \cup {last'.account}
                 /\ Len(accounts'[last'.account])
                      = Len(TxnsOf(accounts, last'.account)) + 1
                 /\ \A a \in DOMAIN accounts :
                       a # last'.account => accounts'[a] = accounts[a] ]_vars

\* create_transaction has just appended the first transaction of one account
\* while the other account holds a deposit and the Interest accrued on it
C32_Witness ==
    /\ last.op = "create_transaction" /\ last.ret = "True"
    /\ DOMAIN accounts = AccountIds
    /\ Len(accounts[last.account]) = 1
    /\ \E a \in AccountIds :
          /\ a # last.account
          /\ Len(accounts[a]) = 2
          /\ accounts[a][2].transaction_type = "I"

\* two stored transactions carry the same id
DuplicateId ==
    \E p, q \in WithId(accounts) :
       p # q /\ accounts[p[1]][p[2]].txn_id = accounts[q[1]][q[2]].txn_id

\* a stored id carries a number above 1 while the number before it, of the
\* same date text, is carried by no stored id
SkippedNumber ==
    \E p \in WithId(accounts) :
       LET id == accounts[p[1]][p[2]].txn_id
       IN  /\ IdNumber(id) > 1
           /\ ~\E q \in WithId(accounts) :
                  /\ IdDateText(accounts[q[1]][q[2]].txn_id) = IdDateText(id)
                  /\ IdNumber(accounts[q[1]][q[2]].txn_id) = IdNumber(id) - 1

\* no caller is inside a call
AllIdle == \A c \in CallerIds : callers.of[c].pc = "idle"

\* C33: the id is not issued atomically.  While the callers take a common
\* lock around every call, no two stored transactions share an id and,
\* between calls, no sequence number is skipped; without the lock the state
\* of C33_Witness is reached, where two callers incremented the counter of
\* one date text before either formatted its id.
C33_IdIssuanceNotAtomic ==
    callers.locking
    => /\ ~DuplicateId
       /\ AllIdle => ~SkippedNumber
       /\ \A c \in CallerIds :
             callers.of[c].pc = "post"
             => \A p \in WithId(accounts) :
                   accounts[p[1]][p[2]].txn_id # callers.of[c].txn_id

\* without a lock, both callers have returned, two transactions are stored
\* under the id 20230101-02, the counter of the date stands at 2, and no
\* transaction carries the number 01
C33_Witness ==
    /\ ~callers.locking /\ AllIdle
    /\ DuplicateId /\ SkippedNumber
    /\ LET txns == TxnsOf(accounts, AccrualAccount)
       IN  /\ Len(txns) = 2
           /\ txns[1].txn_id = TxnId(AccrualRule[1], 2)
           /\ txns[2].txn_id = TxnId(AccrualRule[1], 2)
           /\ transaction_counters[AccrualRule[1]] = 2

\* C34: accrual and the withdrawal check are check-then-act.  While the
\* callers take a common lock, an account holds at most one Interest
\* transaction of the month and every withdrawal that is appended leaves the
\* balance at its date at zero or above; without the lock the state of
\* C34_Witness is reached, where two accruals scanned before either posted
\* and two withdrawals were checked before either was appended.
C34_CheckThenAct ==
    /\ [] ( callers.locking
            => Len(InterestOfMonth(accounts, AccrualAccount,
                                   AccrualMonth[1], AccrualMonth[2])) <= 1 )
    /\ [][ \A c \in CallerIds :
              ( /\ callers.locking
                /\ callers.of[c].pc = "post" /\ Upper(callers.of[c].txn_type) = "W"
                /\ post_transaction(c) )
              => get_balance_at_date(accounts'[callers.of[c].account_id],
                                     callers.of[c].date) >= 0 ]_vars

\* without a lock, both callers have returned, the account holds two Interest
\* transactions of January 2023 and its balance at the date of its two
\* withdrawals is below zero
C34_Witness ==
    /\ ~callers.locking /\ AllIdle
    /\ Len(InterestOfMonth(accounts, AccrualAccount, AccrualMonth[1], AccrualMonth[2])) = 2
    /\ LET txns == TxnsOf(accounts, AccrualAccount)
       IN  /\ Len(SelectSeq(txns, LAMBDA t : t.transaction_type = "W")) = 2
           /\ get_balance_at_date(txns, Date(2023, 1, 1)) < 0

====
